---- MODULE Spec2Model ----
(***************************************************************************)
(* A model of the change-risk gatekeeper: glob matching, the risk          *)
(* assessment, docs-drift detection, SHA discipline (checks, review state, *)
(* the review poll loop), the preflight gate and the remediation loop.     *)
(*                                                                         *)
(* Paths, patterns and messages are TLA+ strings; a character is a string  *)
(* of length one, read with SubSeq.                                        *)
(***************************************************************************)
EXTENDS Integers, Sequences, FiniteSets, TLC

(***************************************************************************)
(* Bounds of the model.                                                    *)
(***************************************************************************)
MaxFiles == 3
MaxChecks == 2
MaxTimeoutMinutes == 1
MaxLatencySteps == 2
MaxFindings == 3
MaxAttemptsCap == 2
MaxGateFiles == 2
MaxEntries == 2
MaxThreads == 2
MaxPatternLength == 3
MaxPathLength == 3
MaxRuns == 2
MaxTaskRuns == 2
MaxRegisterCalls == 2

(***************************************************************************)
(* Strings.                                                                *)
(***************************************************************************)
CharAt(s, i) == SubSeq(s, i, i)

StartsWithAt(s, i, t) == i + Len(t) - 1 <= Len(s) /\ SubSeq(s, i, i + Len(t) - 1) = t

\* The printable ASCII characters in code order: codes 32 (space) to 95,
\* and codes 97 to 126 (code 96, the backtick, cannot be written in a
\* string here and occurs in no path of the model).
AsciiLow == " !\"#$%&'()*+,-./0123456789:;<=>?@ABCDEFGHIJKLMNOPQRSTUVWXYZ[\\]^_"
AsciiHigh == "abcdefghijklmnopqrstuvwxyz{|}~"

CharCode(c) ==
    IF \E i \in 1..Len(AsciiLow) : CharAt(AsciiLow, i) = c
    THEN 31 + (CHOOSE i \in 1..Len(AsciiLow) : CharAt(AsciiLow, i) = c)
    ELSE 96 + (CHOOSE i \in 1..Len(AsciiHigh) : CharAt(AsciiHigh, i) = c)

\* String comparison by UTF-16 code units, as Array.prototype.sort does
\* without a comparator.
RECURSIVE CodeUnitLessAt(_, _, _)
CodeUnitLessAt(a, b, i) ==
    IF i > Len(a) THEN i <= Len(b)
    ELSE IF i > Len(b) THEN FALSE
    ELSE IF CharAt(a, i) = CharAt(b, i) THEN CodeUnitLessAt(a, b, i + 1)
    ELSE CharCode(CharAt(a, i)) < CharCode(CharAt(b, i))

CodeUnitLess(a, b) == CodeUnitLessAt(a, b, 1)

\* s.replace(/<from>/g, to) for a literal `from`: leftmost, non-overlapping.
RECURSIVE ReplaceAllAt(_, _, _, _)
ReplaceAllAt(s, i, from, to) ==
    IF i > Len(s) THEN ""
    ELSE IF StartsWithAt(s, i, from) THEN to \o ReplaceAllAt(s, i + Len(from), from, to)
    ELSE CharAt(s, i) \o ReplaceAllAt(s, i + 1, from, to)

ReplaceAll(s, from, to) == ReplaceAllAt(s, 1, from, to)

Join(strs, sep) ==
    LET RECURSIVE J(_)
        J(i) == IF i > Len(strs) THEN ""
                ELSE IF i = Len(strs) THEN strs[i]
                ELSE strs[i] \o sep \o J(i + 1)
    IN J(1)

Digits == "0123456789"

\* String(n) for an integer n.
RECURSIVE NatToString(_)
NatToString(n) ==
    IF n < 10 THEN CharAt(Digits, n + 1)
    ELSE NatToString(n \div 10) \o CharAt(Digits, (n % 10) + 1)

NumberToString(n) == IF n < 0 THEN "-" \o NatToString(0 - n) ELSE NatToString(n)

SeqToSet(q) == {q[i] : i \in 1..Len(q)}

\* files.filter(pred), keeping order.
FilterSeq(q, Keep(_)) ==
    LET RECURSIVE F(_)
        F(r) == IF r = <<>> THEN <<>>
                ELSE IF Keep(Head(r)) THEN <<Head(r)>> \o F(Tail(r))
                ELSE F(Tail(r))
    IN F(q)

RECURSIVE SumSeq(_)
SumSeq(q) == IF q = <<>> THEN 0 ELSE Head(q) + SumSeq(Tail(q))

RECURSIVE FlattenSeq(_)
FlattenSeq(qq) == IF qq = <<>> THEN <<>> ELSE Head(qq) \o FlattenSeq(Tail(qq))

(***************************************************************************)
(* Glob matching (risk-tier helpers).                                      *)
(***************************************************************************)
\* The characters /[.+^${}()|[\]\\]/ escapes.
RegExpEscapedChars == {".", "+", "^", "$", "{", "}", "(", ")", "|", "[", "]", "\\"}

\* pattern.replace(/[.+^${}()|[\]\\]/g, "\\$&")
RECURSIVE EscapeRegExpChars(_)
EscapeRegExpChars(s) ==
    IF s = "" THEN ""
    ELSE IF Head(s) \in RegExpEscapedChars
         THEN "\\" \o Head(s) \o EscapeRegExpChars(Tail(s))
         ELSE Head(s) \o EscapeRegExpChars(Tail(s))

\* The source of the RegExp globToRegExp builds.
globToRegExp(pattern) ==
    LET escaped == ReplaceAll(
                     ReplaceAll(
                       ReplaceAll(EscapeRegExpChars(pattern), "**", "<<GLOBSTAR>>"),
                       "*", "[^/]*"),
                     "<<GLOBSTAR>>", ".*")
    IN "^" \o escaped \o "$"

\* The length of the atom of the body at position i: \c (an escaped
\* character), [^/]* , .* or a plain character.
AtomLength(re, i) ==
    IF StartsWithAt(re, i, "[^/]*") THEN 5
    ELSE IF StartsWithAt(re, i, ".*") THEN 2
    ELSE IF CharAt(re, i) = "\\" THEN 2
    ELSE 1

\* The atom at position i carries its own quantifier.
IsStarAtom(re, i) == StartsWithAt(re, i, "[^/]*") \/ StartsWithAt(re, i, ".*")

\* The number of ? characters in a row from position i on: ? is not among
\* the characters globToRegExp escapes, so it reaches the RegExp as a
\* quantifier.
RECURSIVE QuestionMarksAt(_, _)
QuestionMarksAt(re, i) ==
    IF i <= Len(re) /\ CharAt(re, i) = "?" THEN 1 + QuestionMarksAt(re, i + 1) ELSE 0

\* new RegExp accepts the body: every ? follows an atom, a starred atom
\* takes one ? (lazy) and any other atom two (optional, lazy).
RECURSIVE RegExpSyntaxOkAt(_, _)
RegExpSyntaxOkAt(re, i) ==
    IF i > Len(re) THEN TRUE
    ELSE IF CharAt(re, i) = "?" THEN FALSE
    ELSE \E next \in {i + AtomLength(re, i)} :
         \E marks \in {QuestionMarksAt(re, next)} :
            /\ marks <= (IF IsStarAtom(re, i) THEN 1 ELSE 2)
            /\ RegExpSyntaxOkAt(re, next + marks)

\* Whether the regular expression body re, read from position i, matches
\* s from position j to its end.
RECURSIVE RegExpMatchAt(_, _, _, _)
RegExpMatchAt(re, i, s, j) ==
    IF i > Len(re) THEN j > Len(s)
    ELSE \E next \in {i + AtomLength(re, i)} :
         \E marks \in {QuestionMarksAt(re, next)} :
         \E rest \in {next + marks}, from \in {j} :
            IF StartsWithAt(re, i, "[^/]*")
            THEN \E k \in from..(Len(s) + 1) :
                   /\ \A m \in from..(k - 1) : CharAt(s, m) # "/"
                   /\ RegExpMatchAt(re, rest, s, k)
            ELSE IF StartsWithAt(re, i, ".*")
            THEN \E k \in from..(Len(s) + 1) : RegExpMatchAt(re, rest, s, k)
            ELSE \/ /\ marks > 0
                    /\ RegExpMatchAt(re, rest, s, from)
                 \/ /\ from <= Len(s)
                    /\ CharAt(s, from) = CharAt(re, next - 1)
                    /\ \E after \in {from + 1} : RegExpMatchAt(re, rest, s, after)

\* new RegExp(source) throws a SyntaxError for a source "^body$".
RegExpSyntaxError(source) == ~RegExpSyntaxOkAt(SubSeq(source, 2, Len(source) - 1), 1)

\* RegExp.prototype.test for a source "^body$".
RegExpTest(source, s) == RegExpMatchAt(SubSeq(source, 2, Len(source) - 1), 1, s, 1)


(***************************************************************************)
(* The inputs of the model: changed files, contracts, historical metadata. *)
(***************************************************************************)
FileUniverse ==
    { "README.md", "db/schema.ts", "app/api/legal-chat/route.ts",
      ".github/workflows/ci.yml", "lib/auth/acl.ts",
      "docs/playbooks/pr-lifecycle.md" }

\* The contract of the repository's tests, with the review timeout left to
\* the gate's inputs.
ContractA ==
    [ riskTierRules |->
        [ high |-> <<"app/api/legal-chat/**", "lib/tools/**", "db/schema.ts">>,
          low |-> <<"**">> ],
      mergePolicy |->
        [ high |-> [ requiredChecks |-> <<"risk-policy-gate", "harness-smoke", "CI Pipeline">>,
                     requireCodeReviewAgent |-> TRUE ],
          low |-> [ requiredChecks |-> <<"risk-policy-gate", "CI Pipeline">>,
                    requireCodeReviewAgent |-> FALSE ] ],
      docsDriftRules |->
        [ controlPlanePaths |-> <<"risk-policy.contract.json", ".github/workflows/**">>,
          requiredDocPaths |-> <<"docs/playbooks/**", "docs/operating-model/**">>,
          coverageByPathClass |->
            << [ id |-> "schema", triggerPaths |-> <<"db/schema.ts">>,
                 requiredDocPaths |-> <<"docs/playbooks/**">>,
                 reason |-> "schema changes need a playbook update" ] >> ],
      browserEvidence |->
        [ requiredFlows |-> <<"legal-chat-login">>,
          requiredFields |-> <<"entrypoint", "accountIdentity", "timestamp", "flowName">>,
          maxAgeDays |-> 7 ] ]

\* A contract whose only high-tier pattern is the schema, whose low tier
\* asks for the review agent too, whose control plane is the API, and which
\* asks for evidence of two flows no older than a day.
ContractB ==
    [ riskTierRules |-> [ high |-> <<"db/schema.ts">>, low |-> <<"**">> ],
      mergePolicy |->
        [ high |-> [ requiredChecks |-> <<"risk-policy-gate", "CI Pipeline">>,
                     requireCodeReviewAgent |-> TRUE ],
          low |-> [ requiredChecks |-> <<"CI Pipeline">>,
                    requireCodeReviewAgent |-> TRUE ] ],
      docsDriftRules |->
        [ controlPlanePaths |-> <<"app/api/**", "db/*.ts">>,
          requiredDocPaths |-> <<"docs/**", "*.md">> ],
      browserEvidence |->
        [ requiredFlows |-> <<"legal-chat-login", "checkout">>,
          requiredFields |-> <<"entrypoint">>,
          maxAgeDays |-> 1 ] ]

Contracts == {ContractA, ContractB}

EMPTY_HISTORICAL_METADATA ==
    [ recentFlakyTests |-> <<>>, incidentTaggedFiles |-> <<>>, priorRollbackAreas |-> <<>> ]

\* The metadata of the repository's tests.
MetadataA ==
    [ recentFlakyTests |->
        << [pattern |-> "tests/smoke/**", weight |-> 10, reason |-> "smoke flake"] >>,
      incidentTaggedFiles |->
        << [pattern |-> "app/api/legal-chat/**", weight |-> 20, reason |-> "incident area"] >>,
      priorRollbackAreas |->
        << [pattern |-> ".github/workflows/**", weight |-> 12, reason |-> "prior rollback"] >> ]

Metadatas == {EMPTY_HISTORICAL_METADATA, MetadataA}

\* A metadata file that tags the workflows as a prior rollback area.
MetadataRollback ==
    [ recentFlakyTests |-> <<>>,
      incidentTaggedFiles |-> <<>>,
      priorRollbackAreas |->
        << [pattern |-> ".github/workflows/**", weight |-> 50, reason |-> "rolled back twice"] >> ]

\* loadHistoricalRiskMetadata: what risk-signals.metadata.json of the
\* repository holds, each missing list read as empty.
RepositoryMetadatas == Metadatas \cup {MetadataRollback}

(***************************************************************************)
(* matchesAny, matchedFiles.                                               *)
(***************************************************************************)
GlobTest(pattern, filePath) == RegExpTest(globToRegExp(pattern), filePath)

SEMANTIC_SIGNALS ==
    << [ category |-> "semantic-public-api", signal |-> "public-api-change",
         patterns |-> <<"**/src/index.ts", "**/*.d.ts", "app/api/**">>, weight |-> 20,
         rationale |-> "Public API changes can impact downstream consumers." ],
       [ category |-> "semantic-auth-permissions", signal |-> "auth-or-permissions-touchpoint",
         patterns |-> <<"**/auth/**", "**/permissions/**", "**/rbac/**", "**/policy/**">>,
         weight |-> 25,
         rationale |-> "Auth and permission changes are security-sensitive." ],
       [ category |-> "semantic-migration", signal |-> "migration-change",
         patterns |-> <<"**/migrations/**", "**/*.sql", "db/schema.ts">>, weight |-> 20,
         rationale |-> "Schema/migration changes are higher-risk to production data paths." ],
       [ category |-> "semantic-workflow", signal |-> "workflow-change",
         patterns |-> <<".github/workflows/**", "scripts/**">>, weight |-> 15,
         rationale |-> "Workflow changes can alter CI/CD and governance execution." ] >>

HIGH_RISK_THRESHOLD == 60

\* Every pattern of the model's contracts, metadata and semantic signals.
KnownPatterns ==
    UNION ( { SeqToSet(c.riskTierRules.high) \cup SeqToSet(c.riskTierRules.low)
                \cup SeqToSet(c.docsDriftRules.controlPlanePaths)
                \cup SeqToSet(c.docsDriftRules.requiredDocPaths) : c \in Contracts }
            \cup { {m.recentFlakyTests[i].pattern : i \in 1..Len(m.recentFlakyTests)}
                     \cup {m.incidentTaggedFiles[i].pattern : i \in 1..Len(m.incidentTaggedFiles)}
                     \cup {m.priorRollbackAreas[i].pattern : i \in 1..Len(m.priorRollbackAreas)}
                   : m \in RepositoryMetadatas }
            \cup { SeqToSet(SEMANTIC_SIGNALS[i].patterns) : i \in 1..Len(SEMANTIC_SIGNALS) } )

\* globToRegExp(p).test(f) for the patterns and paths of the model, computed
\* once.
GlobTable == [p \in KnownPatterns |-> [f \in FileUniverse |-> GlobTest(p, f)]]

GlobMatches(pattern, filePath) == GlobTable[pattern][filePath]

matchesAny(filePath, patterns) ==
    \E i \in 1..Len(patterns) : GlobMatches(patterns[i], filePath)

matchedFiles(files, patterns) ==
    LET Keep(file) == matchesAny(file, patterns) IN FilterSeq(files, Keep)

(***************************************************************************)
(* Risk assessment.                                                        *)
(***************************************************************************)
\* [...strings].sort(): ascending by code units.
RECURSIVE InsertSorted(_, _)
InsertSorted(sorted, x) ==
    IF sorted = <<>> THEN <<x>>
    ELSE IF CodeUnitLess(x, Head(sorted)) THEN <<x>> \o sorted
    ELSE <<Head(sorted)>> \o InsertSorted(Tail(sorted), x)

\* The list left in the caller's order.
SortStringsOmitted(q) == q

RECURSIVE SortStrings(_)
SortStrings(q) ==
    IF q = <<>> THEN <<>>
    ELSE InsertSorted(SortStrings(SubSeq(q, 1, Len(q) - 1)), q[Len(q)])

\* A scorer that emits a signal for every entry, matched or not.
scoreHistoricalSignalsUnmatched(files, entries, category, signalPrefix) ==
    [ i \in 1..Len(entries) |->
        [ category |-> category,
          signal |-> signalPrefix \o ":" \o entries[i].pattern,
          weight |-> entries[i].weight,
          rationale |-> entries[i].reason,
          matchedFiles |-> matchedFiles(files, <<entries[i].pattern>>) ] ]

scoreHistoricalSignals(files, entries, category, signalPrefix) ==
    LET SignalOf(entry) ==
            LET matches == matchedFiles(files, <<entry.pattern>>)
            IN IF Len(matches) > 0
               THEN << [ category |-> category,
                         signal |-> signalPrefix \o ":" \o entry.pattern,
                         weight |-> entry.weight,
                         rationale |-> entry.reason,
                         matchedFiles |-> matches ] >>
               ELSE <<>>
    IN FlattenSeq([i \in 1..Len(entries) |-> SignalOf(entries[i])])

\* The comparison with > for >=.
tierForScoreStrict(score) == IF score > HIGH_RISK_THRESHOLD THEN "high" ELSE "low"

\* score >= HIGH_RISK_THRESHOLD ? "high" : "low"
tierForScore(score) == IF score >= HIGH_RISK_THRESHOLD THEN "high" ELSE "low"

computeRiskAssessment(changedFiles, contract, historicalMetadata) ==
    LET files == SortStrings(changedFiles)
        highRuleMatches == matchedFiles(files, contract.riskTierRules.high)
        contractSignals ==
            IF Len(highRuleMatches) > 0
            THEN << [ category |-> "contract-rule",
                      signal |-> "high-tier-contract-pattern",
                      weight |-> 70,
                      rationale |-> "Matched explicit high-risk pattern from risk-policy contract.",
                      matchedFiles |-> highRuleMatches ] >>
            ELSE <<>>
        SemanticOf(s) ==
            LET matches == matchedFiles(files, s.patterns)
            IN IF Len(matches) > 0
               THEN << [ category |-> s.category, signal |-> s.signal, weight |-> s.weight,
                         rationale |-> s.rationale, matchedFiles |-> matches ] >>
               ELSE <<>>
        semanticSignals ==
            FlattenSeq([i \in 1..Len(SEMANTIC_SIGNALS) |-> SemanticOf(SEMANTIC_SIGNALS[i])])
        triggeredSignals ==
            contractSignals \o semanticSignals
              \o scoreHistoricalSignals(files, historicalMetadata.recentFlakyTests,
                                        "history-flaky-tests", "flaky")
              \o scoreHistoricalSignals(files, historicalMetadata.incidentTaggedFiles,
                                        "history-incidents", "incident")
              \o scoreHistoricalSignals(files, historicalMetadata.priorRollbackAreas,
                                        "history-rollbacks", "rollback")
        score == SumSeq([i \in 1..Len(triggeredSignals) |-> triggeredSignals[i].weight])
        tier == tierForScore(score)
        scoreBreakdown ==
            [ i \in 1..Len(triggeredSignals) |->
                triggeredSignals[i].signal \o " (+" \o NumberToString(triggeredSignals[i].weight)
                  \o ") => " \o Join(triggeredSignals[i].matchedFiles, ", ") ]
    IN [ tier |-> tier, score |-> score, threshold |-> HIGH_RISK_THRESHOLD,
         changedFiles |-> files,
         explanation |-> [ triggeredSignals |-> triggeredSignals,
                           scoreBreakdown |-> scoreBreakdown ] ]

computeRiskTier(changedFiles, contract, historicalMetadata) ==
    computeRiskAssessment(changedFiles, contract, historicalMetadata).tier

computeRequiredChecks(changedFiles, contract, historicalMetadata) ==
    contract.mergePolicy[computeRiskTier(changedFiles, contract, historicalMetadata)].requiredChecks

needsCodeReviewAgent(changedFiles, contract, historicalMetadata) ==
    contract.mergePolicy[computeRiskTier(changedFiles, contract, historicalMetadata)].requireCodeReviewAgent

(***************************************************************************)
(* Docs drift.                                                             *)
(***************************************************************************)
\* The check without its early return: a change without documentation
\* throws whether or not it touches the control plane.
assertDocsDriftRulesNoEarlyReturn(changedFiles, contract) ==
    LET requiredDocPaths == contract.docsDriftRules.requiredDocPaths
        hasDocChange ==
            \E i \in 1..Len(changedFiles) : matchesAny(changedFiles[i], requiredDocPaths)
    IN IF ~hasDocChange
       THEN "Control-plane files changed but no documentation was updated. "
              \o "Please update at least one file matching: "
              \o Join(requiredDocPaths, ", ")
       ELSE "ok"

\* "ok" when assertDocsDriftRules returns, otherwise the message it throws.
assertDocsDriftRules(changedFiles, contract) ==
    LET controlPlanePaths == contract.docsDriftRules.controlPlanePaths
        requiredDocPaths == contract.docsDriftRules.requiredDocPaths
        hasControlPlaneChange ==
            \E i \in 1..Len(changedFiles) : matchesAny(changedFiles[i], controlPlanePaths)
        hasDocChange ==
            \E i \in 1..Len(changedFiles) : matchesAny(changedFiles[i], requiredDocPaths)
    IN IF ~hasControlPlaneChange THEN "ok"
       ELSE IF ~hasDocChange
            THEN "Control-plane files changed but no documentation was updated. "
                   \o "Please update at least one file matching: "
                   \o Join(requiredDocPaths, ", ")
            ELSE "ok"


(***************************************************************************)
(* SHA discipline: check runs and review state.                            *)
(***************************************************************************)
\* A check's conclusion is a string; the string "null" stands for null, which
\* is also how a template literal prints it.
CheckStatuses == {"queued", "in_progress", "completed"}
CheckConclusions == {"success", "failure", "null"}
CheckNames == {"CI Pipeline", "risk-policy-gate"}
HeadShas == {"abc", "def"}

CheckRunResults ==
    [name : CheckNames, headSha : HeadShas, status : CheckStatuses,
     conclusion : CheckConclusions]

\* The assertion without its comparison of the head SHA.
assertCheckIgnoringHeadSha(check, currentHeadSha) ==
    IF check.status # "completed"
    THEN "Check \"" \o check.name \o "\" is not completed (status: " \o check.status \o ")"
    ELSE IF check.conclusion # "success"
    THEN "Check \"" \o check.name \o "\" did not succeed (conclusion: "
           \o check.conclusion \o ")"
    ELSE "ok"

\* "ok" when assertCheckForCurrentHead returns, otherwise the message it
\* throws.
assertCheckForCurrentHead(check, currentHeadSha) ==
    IF check.headSha # currentHeadSha
    THEN "Stale check \"" \o check.name \o "\": expected SHA " \o currentHeadSha
           \o ", got " \o check.headSha
    ELSE IF check.status # "completed"
    THEN "Check \"" \o check.name \o "\" is not completed (status: " \o check.status \o ")"
    ELSE IF check.conclusion # "success"
    THEN "Check \"" \o check.name \o "\" did not succeed (conclusion: "
           \o check.conclusion \o ")"
    ELSE "ok"

\* checks.find((c) => c.name === name): <<>> for undefined, else <<c>> for
\* the first check of that name.
findCheckByName(checks, name) ==
    LET hits == {i \in 1..Len(checks) : checks[i].name = name}
    IN IF hits = {} THEN <<>>
       ELSE <<checks[CHOOSE i \in hits : \A j \in hits : i <= j]>>

\* The assertion looking for every required name before it asserts any
\* check, the variant the properties are tried against.
assertRequiredChecksMissingFirst(checks, requiredNames, currentHeadSha) ==
    LET missing == {i \in 1..Len(requiredNames) :
                      findCheckByName(checks, requiredNames[i]) = <<>>}
        failing == {i \in 1..Len(requiredNames) :
                      assertCheckForCurrentHead(findCheckByName(checks, requiredNames[i])[1],
                                                currentHeadSha) # "ok"}
    IN IF missing # {}
       THEN "Required check \"" \o requiredNames[CHOOSE i \in missing : \A j \in missing : i <= j]
              \o "\" not found"
       ELSE IF failing # {}
       THEN assertCheckForCurrentHead(
                findCheckByName(checks,
                    requiredNames[CHOOSE i \in failing : \A j \in failing : i <= j])[1],
                currentHeadSha)
       ELSE "ok"

\* "ok" when assertRequiredChecksSuccessful returns, otherwise the message of
\* the first error thrown, the required names taken in order.
RECURSIVE assertRequiredChecksSuccessful(_, _, _)
assertRequiredChecksSuccessful(checks, requiredNames, currentHeadSha) ==
    IF requiredNames = <<>> THEN "ok"
    ELSE LET name == Head(requiredNames)
             check == findCheckByName(checks, name)
         IN IF check = <<>>
            THEN "Required check \"" \o name \o "\" not found"
            ELSE LET outcome == assertCheckForCurrentHead(check[1], currentHeadSha)
                 IN IF outcome # "ok" THEN outcome
                    ELSE assertRequiredChecksSuccessful(checks, Tail(requiredNames),
                                                        currentHeadSha)

\* The assertion with the status looked at before the revision, the variant
\* the properties are tried against.
assertReviewCleanStatusFirst(review, currentHeadSha) ==
    IF review.status # "success"
    THEN "Review did not succeed (status: " \o review.status \o ")"
    ELSE IF review.headSha # currentHeadSha
    THEN "Stale review: expected SHA " \o currentHeadSha \o ", got " \o review.headSha
    ELSE IF review.hasActionableFindings
    THEN "Review has unresolved actionable findings for current head"
    ELSE "ok"

\* "ok" when assertReviewCleanForHead returns, otherwise the message it throws.
assertReviewCleanForHead(review, currentHeadSha) ==
    IF review.headSha # currentHeadSha
    THEN "Stale review: expected SHA " \o currentHeadSha \o ", got " \o review.headSha
    ELSE IF review.status # "success"
    THEN "Review did not succeed (status: " \o review.status \o ")"
    ELSE IF review.hasActionableFindings
    THEN "Review has unresolved actionable findings for current head"
    ELSE "ok"

(***************************************************************************)
(* The contract file: what JSON.parse delivers, validateContract and       *)
(* loadContract.                                                           *)
(***************************************************************************)
\* A JSON value where the code looks at its type: an array of strings, or a
\* string (held as its one item).
JsonArray(items) == [type |-> "array", items |-> items]

JsonString(str) == [type |-> "string", items |-> <<str>>]

\* Array.isArray(value)
IsArray(value) == value.type = "array"

\* typeof value === "string"
IsString(value) == value.type = "string"

\* The truthiness of a value: an array is truthy, a string unless empty.
IsTruthy(value) == IsArray(value) \/ value.items # <<"">>

\* obj[key] is truthy: the key is there and its value is truthy.
HasTruthy(obj, key) == key \in DOMAIN obj /\ IsTruthy(obj[key])

REQUIRED_TOP_KEYS ==
    << "version", "riskTierRules", "mergePolicy", "docsDriftRules",
       "browserEvidence", "reviewAgent", "remediationAgent", "harnessGapLoop" >>

\* The object a contract file holds for a contract and a review timeout.
ContractObject(c, timeoutMinutes) ==
    [ version |-> JsonString("1"),
      riskTierRules |->
        [ high |-> JsonArray(c.riskTierRules.high), low |-> JsonArray(c.riskTierRules.low) ],
      mergePolicy |->
        [ high |-> [ requiredChecks |-> JsonArray(c.mergePolicy.high.requiredChecks),
                     requireCodeReviewAgent |-> c.mergePolicy.high.requireCodeReviewAgent ],
          low |-> [ requiredChecks |-> JsonArray(c.mergePolicy.low.requiredChecks),
                    requireCodeReviewAgent |-> c.mergePolicy.low.requireCodeReviewAgent ] ],
      docsDriftRules |->
        [ controlPlanePaths |-> c.docsDriftRules.controlPlanePaths,
          requiredDocPaths |-> c.docsDriftRules.requiredDocPaths ],
      browserEvidence |-> c.browserEvidence,
      reviewAgent |-> [ name |-> "Greptile", timeoutMinutes |-> timeoutMinutes ],
      remediationAgent |-> [ enabled |-> TRUE ],
      harnessGapLoop |-> [ enabled |-> TRUE ] ]

WithoutKey(obj, key) == [k \in DOMAIN obj \ {key} |-> obj[k]]

ObjectFile(obj) == [kind |-> "object", fields |-> <<obj>>]

\* The contract the code reads out of a validated object.
ContractOf(obj) ==
    [ riskTierRules |->
        [ high |-> obj.riskTierRules.high.items, low |-> obj.riskTierRules.low.items ],
      mergePolicy |->
        [ high |-> [ requiredChecks |-> obj.mergePolicy.high.requiredChecks.items,
                     requireCodeReviewAgent |-> obj.mergePolicy.high.requireCodeReviewAgent ],
          low |-> [ requiredChecks |-> obj.mergePolicy.low.requiredChecks.items,
                    requireCodeReviewAgent |-> obj.mergePolicy.low.requireCodeReviewAgent ] ],
      docsDriftRules |->
        [ controlPlanePaths |-> obj.docsDriftRules.controlPlanePaths,
          requiredDocPaths |-> obj.docsDriftRules.requiredDocPaths ] ]

\* The first required key the object lacks, or "".
RECURSIVE FirstMissingKey(_, _)
FirstMissingKey(obj, keys) ==
    IF keys = <<>> THEN ""
    ELSE IF Head(keys) \notin DOMAIN obj THEN Head(keys)
    ELSE FirstMissingKey(obj, Tail(keys))

\* The first tier of mergePolicy without a requiredChecks array, or "".
RECURSIVE FirstBadPolicyTier(_, _)
FirstBadPolicyTier(policy, tiers) ==
    IF tiers = <<>> THEN ""
    ELSE LET tier == Head(tiers)
         IN IF \/ tier \notin DOMAIN policy
               \/ "requiredChecks" \notin DOMAIN policy[tier]
               \/ ~IsArray(policy[tier].requiredChecks)
            THEN tier
            ELSE FirstBadPolicyTier(policy, Tail(tiers))

\* An entry of coverageByPathClass has its four fields of the right types.
IsCoverageEntry(item) ==
    /\ {"id", "triggerPaths", "requiredDocPaths", "reason"} \subseteq DOMAIN item
    /\ IsString(item.id)
    /\ IsArray(item.triggerPaths)
    /\ IsArray(item.requiredDocPaths)
    /\ IsString(item.reason)

\* The index of the first malformed entry of coverageByPathClass, or -1.
FirstBadCoverageEntry(entries) ==
    LET bad == {i \in 1..Len(entries) : ~IsCoverageEntry(entries[i])}
    IN IF bad = {} THEN -1 ELSE (CHOOSE i \in bad : \A j \in bad : i <= j) - 1

\* "ok" when validateContract returns, otherwise the message it throws.
validateContract(file) ==
    IF file.kind # "object" THEN "Contract must be a non-null object"
    ELSE LET obj == file.fields[1]
             missing == FirstMissingKey(obj, REQUIRED_TOP_KEYS)
         IN IF missing # "" THEN "Contract missing required key: " \o missing
            ELSE IF ~HasTruthy(obj.riskTierRules, "high") \/ ~HasTruthy(obj.riskTierRules, "low")
            THEN "riskTierRules must contain 'high' and 'low' entries"
            ELSE LET tier == FirstBadPolicyTier(obj.mergePolicy, <<"high", "low">>)
                 IN IF tier # ""
                    THEN "mergePolicy." \o tier \o " must contain requiredChecks array"
                    ELSE IF "coverageByPathClass" \notin DOMAIN obj.docsDriftRules THEN "ok"
                    ELSE LET coverage == obj.docsDriftRules.coverageByPathClass
                         IN IF ~IsArray(coverage)
                            THEN "docsDriftRules.coverageByPathClass must be an array when present"
                            ELSE LET index == FirstBadCoverageEntry(coverage.items)
                                 IN IF index >= 0
                                    THEN "docsDriftRules.coverageByPathClass["
                                           \o NumberToString(index)
                                           \o "] must include id, triggerPaths, "
                                           \o "requiredDocPaths, and reason"
                                    ELSE "ok"

\* loadContract: the file is read, parsed and validated.  The result holds
\* the message of the error thrown, or "" and the object.
loadContract(file) ==
    IF file.kind = "unreadable"
    THEN [error |-> "ENOENT: no such file or directory, open 'risk-policy.contract.json'",
          data |-> <<>>]
    ELSE IF file.kind = "malformed"
    THEN [error |-> "Unexpected end of JSON input", data |-> <<>>]
    ELSE LET outcome == validateContract(file)
         IN IF outcome # "ok" THEN [error |-> outcome, data |-> <<>>]
            ELSE [error |-> "", data |-> file.fields]

\* patterns.some(...) can be called: the patterns are an array.
CanCallSome(patterns) == IsArray(patterns)

\* The error computeRiskTier throws on an object: matchedFiles calls
\* patterns.some for the first file, which is a TypeError unless the patterns
\* are an array; "" when it throws nothing.
computeRiskTierError(files, obj) ==
    IF files # <<>> /\ ~CanCallSome(obj.riskTierRules.high)
    THEN "patterns.some is not a function"
    ELSE ""


(***************************************************************************)
(* Review findings: adjudication and the filter of the remediation loop.   *)
(***************************************************************************)
SEVERITY_RANK ==
    [critical |-> 5, high |-> 4, medium |-> 3, low |-> 2, info |-> 1]

CONFIDENCE_RANK == [high |-> 3, medium |-> 2, low |-> 1]

UpperCaseLetters == "ABCDEFGHIJKLMNOPQRSTUVWXYZ"

LowerCaseLetters == "abcdefghijklmnopqrstuvwxyz"

\* One character, lower-cased.
CharToLowerCase(c) ==
    LET hits == {i \in 1..Len(UpperCaseLetters) : CharAt(UpperCaseLetters, i) = c}
    IN IF hits = {} THEN c ELSE CharAt(LowerCaseLetters, CHOOSE i \in hits : TRUE)

\* String.prototype.toLowerCase
RECURSIVE ToLowerCase(_)
ToLowerCase(str) ==
    IF str = "" THEN "" ELSE CharToLowerCase(CharAt(str, 1)) \o ToLowerCase(Tail(str))

\* String.prototype.trim, the white space of the model's messages being the
\* space.
RECURSIVE TrimStart(_)
TrimStart(str) ==
    IF str # "" /\ CharAt(str, 1) = " " THEN TrimStart(Tail(str)) ELSE str

RECURSIVE TrimEnd(_)
TrimEnd(str) ==
    IF str # "" /\ CharAt(str, Len(str)) = " "
    THEN TrimEnd(SubSeq(str, 1, Len(str) - 1))
    ELSE str

Trim(str) == TrimEnd(TrimStart(str))

\* replace(/\s+/g, " "): every run of white space becomes one space.
RECURSIVE CollapseWhiteSpace(_)
CollapseWhiteSpace(str) ==
    IF str = "" THEN ""
    ELSE IF CharAt(str, 1) = " "
    THEN " " \o CollapseWhiteSpace(TrimStart(str))
    ELSE CharAt(str, 1) \o CollapseWhiteSpace(Tail(str))

\* The findings of the model, after those of the repository's tests: a
\* duplicate pair told apart by case and spacing, a critical finding, a stale
\* one, an informational one, and a pair sharing a fingerprint.  A providers
\* list is as the code builds it: the single provider normalizeReviewFindings
\* writes, or the sorted list of an earlier merge.
FindingUniverse ==
    { [ providers |-> <<"style-reviewer">>, file |-> "a.ts", line |-> 1,
        message |-> "duplicate", severity |-> "low", confidence |-> "low",
        category |-> "style", headSha |-> "abc", fingerprint |-> <<>> ],
      [ providers |-> <<"architecture-reviewer", "style-reviewer">>, file |-> "a.ts", line |-> 1,
        message |-> " Duplicate ", severity |-> "high", confidence |-> "high",
        category |-> "style", headSha |-> "abc", fingerprint |-> <<>> ],
      [ providers |-> <<"security-reviewer">>, file |-> "b.ts", line |-> 2,
        message |-> "sql injection", severity |-> "critical", confidence |-> "high",
        category |-> "security", headSha |-> "abc", fingerprint |-> <<>> ],
      [ providers |-> <<"security-reviewer">>, file |-> "c.ts", line |-> 3,
        message |-> "old stale finding", severity |-> "critical", confidence |-> "high",
        category |-> "security", headSha |-> "def", fingerprint |-> <<"fp-1">> ],
      [ providers |-> <<"style-reviewer">>, file |-> "d.ts", line |-> 4,
        message |-> "note", severity |-> "info", confidence |-> "high",
        category |-> "other", headSha |-> "abc", fingerprint |-> <<>> ],
      [ providers |-> <<"codex">>, file |-> "b.ts", line |-> 7,
        message |-> "unchecked input", severity |-> "critical", confidence |-> "high",
        category |-> "security", headSha |-> "abc", fingerprint |-> <<"fp-1">> ] }

findingPriority(finding) ==
    SEVERITY_RANK[finding.severity] * 10 + CONFIDENCE_RANK[finding.confidence]

\* A fingerprint is <<>> when undefined and <<f>> otherwise; the empty string
\* is falsy.
\* message.trim().toLowerCase().replace(/\s+/g, " ")
normalizedMessage(message) == CollapseWhiteSpace(ToLowerCase(Trim(message)))

\* The normalized message of every message of the model, computed once.
NormalizedMessageTable ==
    [message \in {f.message : f \in FindingUniverse} |-> normalizedMessage(message)]

buildDuplicateKey(finding) ==
    IF finding.fingerprint # <<>> /\ finding.fingerprint # <<"">>
    THEN finding.fingerprint[1]
    ELSE finding.file \o ":" \o NumberToString(finding.line) \o ":" \o finding.category
           \o ":" \o NormalizedMessageTable[finding.message]

\* The items of a sequence without repetitions, in order of first appearance.
RECURSIVE Distinct(_)
Distinct(q) ==
    IF q = <<>> THEN <<>>
    ELSE LET front == Distinct(SubSeq(q, 1, Len(q) - 1))
             last == q[Len(q)]
         IN IF last \in SeqToSet(front) THEN front ELSE Append(front, last)

\* The position of a key among the entries of the map, or 0.
IndexOfKey(entries, key) ==
    LET hits == {i \in 1..Len(entries) : entries[i].key = key}
    IN IF hits = {} THEN 0 ELSE CHOOSE i \in hits : TRUE

\* The merge loop without the union of the providers: the winner is stored as
\* it is.
MergeFindingKeepsWinnerProviders(entries, finding) ==
    LET key == buildDuplicateKey(finding)
        at == IndexOfKey(entries, key)
    IN IF at = 0 THEN Append(entries, [key |-> key, value |-> finding])
       ELSE LET existing == entries[at].value
                winner == IF findingPriority(finding) > findingPriority(existing)
                          THEN finding ELSE existing
            IN [entries EXCEPT ![at] = [key |-> key, value |-> winner]]

\* One turn of the merge loop on the entries of the map, in insertion order.
MergeFinding(entries, finding) ==
    LET key == buildDuplicateKey(finding)
        at == IndexOfKey(entries, key)
    IN IF at = 0 THEN Append(entries, [key |-> key, value |-> finding])
       ELSE LET existing == entries[at].value
                winner == IF findingPriority(finding) > findingPriority(existing)
                          THEN finding ELSE existing
                merged ==
                    [winner EXCEPT
                       !.providers = SortStrings(Distinct(existing.providers \o finding.providers)),
                       !.fingerprint = IF existing.fingerprint # <<>>
                                       THEN existing.fingerprint ELSE finding.fingerprint]
            IN [entries EXCEPT ![at] = [key |-> key, value |-> merged]]

RECURSIVE MergeFindings(_, _)
MergeFindings(entries, findings) ==
    IF findings = <<>> THEN entries
    ELSE MergeFindings(MergeFinding(entries, Head(findings)), Tail(findings))

\* a.file.localeCompare(b.file) < 0; the file names of the model are lower-case
\* ASCII, on which the collation and the code-unit order agree.
LocaleCompareLess(a, b) == CodeUnitLess(a, b)

\* A comparator that puts the lowest severity first.
FindingBeforeSeverityAscending(a, b) ==
    IF SEVERITY_RANK[b.severity] # SEVERITY_RANK[a.severity]
    THEN SEVERITY_RANK[a.severity] < SEVERITY_RANK[b.severity]
    ELSE IF CONFIDENCE_RANK[b.confidence] # CONFIDENCE_RANK[a.confidence]
    THEN CONFIDENCE_RANK[b.confidence] < CONFIDENCE_RANK[a.confidence]
    ELSE IF a.file # b.file THEN CodeUnitLess(a.file, b.file)
    ELSE a.line < b.line

\* The comparator of the sort is negative: a goes before b.
FindingBefore(a, b) ==
    IF SEVERITY_RANK[b.severity] # SEVERITY_RANK[a.severity]
    THEN SEVERITY_RANK[b.severity] < SEVERITY_RANK[a.severity]
    ELSE IF CONFIDENCE_RANK[b.confidence] # CONFIDENCE_RANK[a.confidence]
    THEN CONFIDENCE_RANK[b.confidence] < CONFIDENCE_RANK[a.confidence]
    ELSE IF a.file # b.file THEN LocaleCompareLess(a.file, b.file)
    ELSE a.line < b.line

\* No sort at all: the item goes first, whatever the comparator says.
InsertFindingFirst(sorted, finding) == <<finding>> \o sorted

\* A stable sort: an item goes after the items that do not come after it.
RECURSIVE InsertFinding(_, _)
InsertFinding(sorted, finding) ==
    IF sorted = <<>> THEN <<finding>>
    ELSE IF FindingBefore(finding, sorted[Len(sorted)])
    THEN Append(InsertFinding(SubSeq(sorted, 1, Len(sorted) - 1), finding),
                sorted[Len(sorted)])
    ELSE Append(sorted, finding)

RECURSIVE SortFindings(_)
SortFindings(q) ==
    IF q = <<>> THEN <<>>
    ELSE InsertFinding(SortFindings(SubSeq(q, 1, Len(q) - 1)), q[Len(q)])

adjudicateFindings(findings) ==
    LET entries == MergeFindings(<<>>, findings)
    IN SortFindings([i \in 1..Len(entries) |-> entries[i].value])

\* A filter that lets every severity through.
IsAnySeverity(f) == f.severity \in DOMAIN SEVERITY_RANK

IsNotInformational(f) == f.severity # "info"

\* A filter that keeps the findings of other revisions whatever the config says.
filterCurrentFindingsKeepsStale(findings, currentHeadSha, config) ==
    adjudicateFindings(FilterSeq(findings, IsNotInformational))

filterCurrentFindings(findings, currentHeadSha, config) ==
    LET IsFresh(f) == f.headSha = currentHeadSha
        withoutInformational == FilterSeq(findings, IsNotInformational)
        freshFindings == IF config.skipStaleComments
                         THEN FilterSeq(withoutInformational, IsFresh)
                         ELSE withoutInformational
    IN adjudicateFindings(freshFindings)

(***************************************************************************)
(* Browser evidence.                                                       *)
(***************************************************************************)
\* 24 * 60 * 60, the seconds of a day; the model counts time in seconds, a
\* thousandth of the code's milliseconds.
SecondsPerDay == 86400

\* The clock of the model: 2026-01-10T00:00:00.000Z, in seconds.
EvidenceNow == 1768003200

\* new Date(timestamp).getTime() for the timestamps of the model: <<>> for
\* NaN, which is what a string that is no date gives.
DateParse(timestamp) ==
    IF timestamp = "2026-01-10T00:00:00.000Z" THEN <<EvidenceNow>>
    ELSE IF timestamp = "2026-01-09T00:00:00.000Z" THEN <<EvidenceNow - SecondsPerDay>>
    ELSE IF timestamp = "2026-01-08T23:59:59.000Z" THEN <<EvidenceNow - SecondsPerDay - 1>>
    ELSE IF timestamp = "2026-01-03T00:00:00.000Z" THEN <<EvidenceNow - 7 * SecondsPerDay>>
    ELSE IF timestamp = "2025-12-11T00:00:00.000Z" THEN <<EvidenceNow - 30 * SecondsPerDay>>
    ELSE <<>>

EvidenceTimestamps ==
    { "2026-01-10T00:00:00.000Z", "2026-01-09T00:00:00.000Z", "2026-01-08T23:59:59.000Z",
      "2026-01-03T00:00:00.000Z", "2025-12-11T00:00:00.000Z", "yesterday", "" }

\* The entries a manifest of the model is made of.
EvidenceEntries ==
    [ flowName : {"legal-chat-login", "checkout"},
      entrypoint : {"/login", ""},
      accountIdentity : {"test@example.com"},
      timestamp : EvidenceTimestamps,
      artifacts : {<<"screenshot-1.png">>} ]

\* value === undefined || value === null || value === "" for entry[field]
FieldIsMissing(entry, field) ==
    IF field \notin DOMAIN entry THEN TRUE
    ELSE IF field = "artifacts" THEN FALSE
    ELSE entry[field] = ""

\* now - entryTime > maxAgeMs, which is false when entryTime is NaN
IsOverAge(entry, maxAgeDays, clock) ==
    LET entryTime == DateParse(entry.timestamp)
    IN entryTime # <<>> /\ clock - entryTime[1] > maxAgeDays * SecondsPerDay

\* The first index of a set of indices, or 0.
FirstIndex(indices) ==
    IF indices = {} THEN 0 ELSE CHOOSE i \in indices : \A j \in indices : i <= j

\* The outcome of the checks that follow the SHA check: flows, fields, age.
validateEvidenceEntries(manifest, config, clock) ==
    LET flows == config.requiredFlows
        fields == config.requiredFields
        entries == manifest.entries
        missingFlow ==
            FirstIndex({i \in 1..Len(flows) :
                          \A e \in 1..Len(entries) : entries[e].flowName # flows[i]})
        lacking ==
            FirstIndex({e \in 1..Len(entries) :
                          \E f \in 1..Len(fields) : FieldIsMissing(entries[e], fields[f])})
        overAge ==
            FirstIndex({e \in 1..Len(entries) : IsOverAge(entries[e], config.maxAgeDays, clock)})
    IN IF missingFlow # 0
       THEN "Missing browser evidence for required flow: " \o flows[missingFlow]
       ELSE IF lacking # 0
       THEN "Browser evidence entry \"" \o entries[lacking].flowName
              \o "\" missing required field: "
              \o fields[FirstIndex({f \in 1..Len(fields) :
                                      FieldIsMissing(entries[lacking], fields[f])})]
       ELSE IF overAge # 0
       THEN "Browser evidence for \"" \o entries[overAge].flowName \o "\" is older than "
              \o NumberToString(config.maxAgeDays) \o " days"
       ELSE "ok"

\* The validation with the SHA compared last, the variant the properties are
\* tried against.
validateBrowserEvidenceShaLast(manifest, contract, currentHeadSha, clock) ==
    IF validateEvidenceEntries(manifest, contract.browserEvidence, clock) # "ok"
    THEN validateEvidenceEntries(manifest, contract.browserEvidence, clock)
    ELSE IF manifest.headSha # currentHeadSha
    THEN "Browser evidence SHA mismatch: expected " \o currentHeadSha
           \o ", got " \o manifest.headSha
    ELSE "ok"

\* "ok" when validateBrowserEvidence returns, otherwise the message it throws;
\* clock is what Date.now() gives.
validateBrowserEvidence(manifest, contract, currentHeadSha, clock) ==
    IF manifest.headSha # currentHeadSha
    THEN "Browser evidence SHA mismatch: expected " \o currentHeadSha
           \o ", got " \o manifest.headSha
    ELSE validateEvidenceEntries(manifest, contract.browserEvidence, clock)

(***************************************************************************)
(* Rerun-comment writer.                                                   *)
(***************************************************************************)
DEFAULT_MARKER == "<!-- risk-policy-rerun-request -->"

DEFAULT_AGENT == "review-agent"

\* String.prototype.includes
Includes(str, sub) == \E i \in 1..(Len(str) - Len(sub) + 1) : StartsWithAt(str, i, sub)

\* The options are left out: the marker and the agent are the defaults.
buildRerunComment(headSha) ==
    DEFAULT_MARKER \o "\n@" \o DEFAULT_AGENT \o " please re-review\nsha:" \o headSha

hasExistingRerunRequest(comments, headSha) ==
    LET marker == DEFAULT_MARKER
        trigger == "sha:" \o headSha
    IN \E i \in 1..Len(comments) :
          Includes(comments[i].body, marker) /\ Includes(comments[i].body, trigger)

\* <<>> for null, <<body>> for a comment body.
maybeRerunComment(comments, headSha) ==
    IF hasExistingRerunRequest(comments, headSha) THEN <<>>
    ELSE <<buildRerunComment(headSha)>>

(***************************************************************************)
(* State.                                                                  *)
(***************************************************************************)
VARIABLES
    \* risk assessment and docs drift, called on their own
    changedFiles,        \* the changed-file list, in the caller's order
    contract,            \* the contract passed in
    historicalMetadata,  \* the historical metadata passed in
    assessment,          \* <<>>, or <<a>> for the assessment last returned
    driftOutcome,        \* "none", "ok", or the message assertDocsDriftRules threw
    \* required checks, asserted on their own
    checks,              \* the check runs the caller lists
    requiredNames,       \* the required check names
    currentHeadSha,      \* the current head SHA
    checksOutcome,       \* "none", "ok", or the message the assertion threw
    \* waitForReviewCompletion
    waitOpts,            \* the options of the call: headSha, timeoutMinutes
    wpc,                 \* where the call is: "idle", "loop", "polling",
                         \* "sleeping", "returned", "timedout", "rejected"
    now,                 \* Date.now(), in milliseconds
    deadline,            \* the deadline the call computed
    state,               \* what the last poll delivered: <<>> for null or no poll
    polledShas,          \* the SHAs pollFn was called with
    waitError,           \* "" or the message the call rejected with
    \* runPreflightGate
    gateOpts,            \* the options of the run: changedFiles, headSha, and
                         \* whether pollReview is supplied
    contractFile,        \* what risk-policy.contract.json holds
    gatePc,              \* where the run is: "idle", "awaitReview", "returned",
                         \* "rejected"
    riskTier,            \* the locals of the run
    requiredChecks,
    reviewRequired,
    errors,
    docsDriftChecked,    \* assertDocsDriftRules was called in the run
    result,              \* <<>>, or <<r>> for the PreflightResult returned
    gateError,           \* "" or the message the run rejected with
    \* runRemediationLoop
    remOpts,             \* the options of the run: findings, currentHeadSha, config
    rpc,                 \* where the run is: "idle", "loop", "applying",
                         \* "validating", "done", "rejected"
    actionable,          \* the findings the loop goes through
    cursor,              \* the position of the loop in actionable
    remResult,           \* the RemediationResult being built, returned at "done"
    applyLog,            \* the file:line of every applyFix call, in order
    validateCalls,       \* the number of validate calls
    callLog,             \* every applyFix and validate call, in order: the call,
                         \* the position of its finding in actionable, and
                         \* "pending" or what it settled with
    \* validateBrowserEvidence
    manifest,            \* the evidence manifest
    evidenceContract,    \* the contract passed in
    evidenceHeadSha,     \* the current head SHA passed in
    evidenceOutcome,     \* "none", "ok", or the message the validation threw
    \* assertCheckForCurrentHead and assertReviewCleanForHead, called on their own
    assertedSha,         \* the current head SHA passed in
    assertedCheck,       \* <<>>, or <<c>> for the check asserted
    assertedCheckOutcome,  \* "none", "ok", or the message the assertion threw
    assertedReview,      \* <<>>, or <<r>> for the review asserted
    assertedReviewOutcome,  \* "none", "ok", or the message the assertion threw
    \* adjudicateFindings and filterCurrentFindings, called on their own
    findingsInput,       \* the findings passed in
    findingsHeadSha,     \* the current head SHA passed to filterCurrentFindings
    findingsConfig,      \* the RemediationConfig passed to filterCurrentFindings
    adjudicated,         \* [called, value]: adjudicateFindings(findingsInput)
    readjudicated,       \* [called, value]: adjudicateFindings of that result
    filteredResult,      \* [called, value]: the result of filterCurrentFindings
    \* autoResolveBotThreads
    threadOpts,          \* the options of the run: threads, botUser
    tpc,                 \* where the run is: "idle", "loop", "resolving", "done"
    resolvable,          \* the threads the run goes through
    threadCursor,        \* the position of the run in resolvable
    threadResult,        \* the AutoResolveResult being built, returned at "done"
    resolveLog,          \* every resolveFn call, in order: the thread id and
                         \* "pending" or "settled"
    \* globToRegExp(pattern).test(path), called on its own
    globPattern,         \* the glob pattern
    globPath,            \* the path tested
    globOutcome,         \* "none", "true", "false", or "SyntaxError" when new RegExp throws
    \* workflow runs that post what maybeRerunComment returns
    prComments,          \* the comments of the pull request, in order
    runSha,              \* the head SHA of each workflow run
    runPc,               \* where each run is: "start", "evaluating", "done"
    runComments,         \* the comments each run has read
    \* TaskRunner
    definitions,         \* the names of the registered task definitions
    taskRuns,            \* the runs, in order of submission: taskName, status,
                         \* submitting (submit has not called executeRun yet),
                         \* executing (the executeRun calls in flight) and
                         \* history (every status the run has been given)
    registerCalls,       \* the number of register calls so far
    initializePc         \* "idle", "loading" (awaiting loadState), "done"

riskVars == <<changedFiles, contract, historicalMetadata, assessment, driftOutcome>>

checkVars == <<checks, requiredNames, currentHeadSha, checksOutcome>>

waitVars == <<waitOpts, wpc, now, deadline, state, polledShas, waitError>>

gateVars ==
    <<gateOpts, contractFile, gatePc, riskTier, requiredChecks, reviewRequired, errors,
      docsDriftChecked, result, gateError>>

remVars ==
    <<remOpts, rpc, actionable, cursor, remResult, applyLog, validateCalls, callLog>>

evidenceVars == <<manifest, evidenceContract, evidenceHeadSha, evidenceOutcome>>

assertVars ==
    <<assertedSha, assertedCheck, assertedCheckOutcome, assertedReview, assertedReviewOutcome>>

findingsVars ==
    <<findingsInput, findingsHeadSha, findingsConfig, adjudicated, readjudicated, filteredResult>>

threadVars == <<threadOpts, tpc, resolvable, threadCursor, threadResult, resolveLog>>

globVars == <<globPattern, globPath, globOutcome>>

rerunVars == <<prComments, runSha, runPc, runComments>>

taskVars == <<definitions, taskRuns, registerCalls, initializePc>>

vars == <<riskVars, checkVars, waitVars, gateVars, remVars, evidenceVars, assertVars,
         findingsVars, threadVars, globVars, rerunVars, taskVars>>

nonRiskVars == <<checkVars, waitVars, gateVars, remVars, evidenceVars, assertVars,
    findingsVars, threadVars, globVars, rerunVars, taskVars>>

nonCheckVars == <<riskVars, waitVars, gateVars, remVars, evidenceVars, assertVars,
    findingsVars, threadVars, globVars, rerunVars, taskVars>>

nonWaitVars == <<riskVars, checkVars, gateVars, remVars, evidenceVars, assertVars,
    findingsVars, threadVars, globVars, rerunVars, taskVars>>

nonGateVars == <<riskVars, checkVars, remVars, evidenceVars, assertVars,
    findingsVars, threadVars, globVars, rerunVars, taskVars>>

nonRemVars == <<riskVars, checkVars, waitVars, gateVars, evidenceVars, assertVars,
    findingsVars, threadVars, globVars, rerunVars, taskVars>>

nonEvidenceVars == <<riskVars, checkVars, waitVars, gateVars, remVars, assertVars,
    findingsVars, threadVars, globVars, rerunVars, taskVars>>

nonAssertVars == <<riskVars, checkVars, waitVars, gateVars, remVars, evidenceVars,
    findingsVars, threadVars, globVars, rerunVars, taskVars>>

nonFindingsVars ==
    <<riskVars, checkVars, waitVars, gateVars, remVars, evidenceVars, assertVars, threadVars, globVars, rerunVars, taskVars>>

nonThreadVars ==
    <<riskVars, checkVars, waitVars, gateVars, remVars, evidenceVars, assertVars,
      findingsVars,
      globVars, rerunVars, taskVars>>

nonGlobVars ==
    <<riskVars, checkVars, waitVars, gateVars, remVars, evidenceVars, assertVars, findingsVars, threadVars,
      rerunVars, taskVars>>

nonRerunVars ==
    <<riskVars, checkVars, waitVars, gateVars, remVars, evidenceVars, assertVars, findingsVars, threadVars, globVars,
      taskVars>>

nonTaskVars ==
    <<riskVars, checkVars, waitVars, gateVars, remVars, evidenceVars, assertVars, findingsVars, threadVars, globVars, rerunVars>>

(***************************************************************************)
(* Risk assessment and docs drift as operations on a changed-file list.    *)
(***************************************************************************)
RiskStart ==
    /\ changedFiles = <<>>
    /\ contract \in Contracts
    /\ historicalMetadata \in Metadatas
    /\ assessment = <<>>
    /\ driftOutcome = "none"

\* The caller names one more changed file.
AddChangedFile ==
    /\ Len(changedFiles) < MaxFiles
    /\ assessment = <<>>
    /\ driftOutcome = "none"
    /\ \E f \in FileUniverse : changedFiles' = Append(changedFiles, f)
    /\ UNCHANGED <<contract, historicalMetadata, assessment, driftOutcome>>
    /\ UNCHANGED nonRiskVars

CallComputeRiskAssessment ==
    /\ assessment = <<>>
    /\ driftOutcome = "none"
    /\ assessment' = <<computeRiskAssessment(changedFiles, contract, historicalMetadata)>>
    /\ UNCHANGED <<changedFiles, contract, historicalMetadata, driftOutcome>>
    /\ UNCHANGED nonRiskVars

CallAssertDocsDriftRules ==
    /\ assessment = <<>>
    /\ driftOutcome = "none"
    /\ driftOutcome' = assertDocsDriftRules(changedFiles, contract)
    /\ UNCHANGED <<changedFiles, contract, historicalMetadata, assessment>>
    /\ UNCHANGED nonRiskVars

RiskNext ==
    \/ AddChangedFile
    \/ CallComputeRiskAssessment
    \/ CallAssertDocsDriftRules

RiskIdle ==
    /\ changedFiles = <<>>
    /\ contract = ContractA
    /\ historicalMetadata = EMPTY_HISTORICAL_METADATA
    /\ assessment = <<>>
    /\ driftOutcome = "none"


(***************************************************************************)
(* The required checks of a head SHA, asserted on a list of check runs.    *)
(***************************************************************************)
\* The ways the model asks for the two check names.
RequiredNameLists ==
    { <<>>, <<"CI Pipeline">>, <<"risk-policy-gate", "CI Pipeline">>,
      <<"CI Pipeline", "risk-policy-gate">> }

ChecksStart ==
    /\ checks = <<>>
    /\ requiredNames \in RequiredNameLists
    /\ currentHeadSha \in HeadShas
    /\ checksOutcome = "none"

\* The caller lists one more check run.
AddCheckRun ==
    /\ Len(checks) < MaxChecks
    /\ checksOutcome = "none"
    /\ \E c \in CheckRunResults : checks' = Append(checks, c)
    /\ UNCHANGED <<requiredNames, currentHeadSha, checksOutcome>>
    /\ UNCHANGED nonCheckVars

CallAssertRequiredChecksSuccessful ==
    /\ checksOutcome = "none"
    /\ checksOutcome' = assertRequiredChecksSuccessful(checks, requiredNames, currentHeadSha)
    /\ UNCHANGED <<checks, requiredNames, currentHeadSha>>
    /\ UNCHANGED nonCheckVars

ChecksNext ==
    \/ AddCheckRun
    \/ CallAssertRequiredChecksSuccessful

ChecksIdle ==
    /\ checks = <<>>
    /\ requiredNames = <<>>
    /\ currentHeadSha = "abc"
    /\ checksOutcome = "none"

(***************************************************************************)
(* waitForReviewCompletion, one action per stretch between two awaits.     *)
(***************************************************************************)
\* The review states a poll can deliver.
ReviewStatuses == {"success", "failure", "pending"}

ReviewStates ==
    [headSha : HeadShas, status : ReviewStatuses, hasActionableFindings : BOOLEAN]

\* What a pollFn call settles with: null, a review state, or a rejection.
PollOutcomes ==
    {[kind |-> "null", review |-> <<>>], [kind |-> "rejects", review |-> <<>>]}
        \cup {[kind |-> "state", review |-> <<r>>] : r \in ReviewStates}

\* The message a rejecting pollFn rejects with.
PollErrorMessage == "review query failed"

\* pollIntervalMs = 15_000
DefaultPollIntervalMs == 15000

\* timeoutMinutes * 60_000
MsPerMinute == 60000

\* if (state && state.status !== "pending"), with the truthy test widened to
\* every state in the variant the properties are tried against
IsSettledStateAnyStatus(st) == st # <<>>

IsSettledState(st) == st # <<>> /\ st[1].status # "pending"

TimeoutMessage(opts) ==
    "Review agent timed out after " \o NumberToString(opts.timeoutMinutes)
        \o " minutes for SHA " \o opts.headSha

\* The call up to its loop: the options are destructured and the deadline is
\* computed from the clock.
WaitBegin(headSha, timeoutMinutes) ==
    /\ waitOpts' = [headSha |-> headSha, timeoutMinutes |-> timeoutMinutes]
    /\ deadline' = now + timeoutMinutes * MsPerMinute
    /\ wpc' = "loop"
    /\ state' = <<>>
    /\ polledShas' = {}
    /\ waitError' = ""
    /\ UNCHANGED now

WaitStart ==
    /\ waitOpts = [headSha |-> "abc", timeoutMinutes |-> 0]
    /\ wpc = "idle"
    /\ now = 0
    /\ deadline = 0
    /\ state = <<>>
    /\ polledShas = {}
    /\ waitError = ""

CallWaitForReviewCompletion ==
    /\ wpc = "idle"
    /\ \E sha \in HeadShas, t \in 0..MaxTimeoutMinutes : WaitBegin(sha, t)
    /\ UNCHANGED nonWaitVars

\* while (Date.now() < deadline): either pollFn is called with the head SHA,
\* or the loop is left and the timeout error is thrown.
WaitLoopHead ==
    /\ wpc = "loop"
    /\ IF now < deadline
         THEN /\ wpc' = "polling"
              /\ polledShas' = polledShas \cup {waitOpts.headSha}
              /\ UNCHANGED waitError
         ELSE /\ wpc' = "timedout"
              /\ waitError' = TimeoutMessage(waitOpts)
              /\ UNCHANGED polledShas
    /\ UNCHANGED <<waitOpts, now, deadline, state>>

\* The pending pollFn call settles, some whole number of intervals after it
\* was made; a settled review state is returned, a rejection propagates, and
\* anything else starts the interval timer.
WaitPollSettles(steps, outcome) ==
    /\ wpc = "polling"
    /\ now' = now + steps * DefaultPollIntervalMs
    /\ IF outcome.kind = "rejects"
         THEN /\ wpc' = "rejected"
              /\ waitError' = PollErrorMessage
              /\ UNCHANGED state
         ELSE /\ state' = outcome.review
              /\ wpc' = IF IsSettledState(outcome.review) THEN "returned" ELSE "sleeping"
              /\ UNCHANGED waitError
    /\ UNCHANGED <<waitOpts, deadline, polledShas>>

WaitPoll ==
    \E steps \in 0..MaxLatencySteps, outcome \in PollOutcomes :
        WaitPollSettles(steps, outcome)

\* setTimeout(r, pollIntervalMs) fires.
WaitSleepDone ==
    /\ wpc = "sleeping"
    /\ now' = now + DefaultPollIntervalMs
    /\ wpc' = "loop"
    /\ UNCHANGED <<waitOpts, deadline, state, polledShas, waitError>>

WaitStep ==
    /\ \/ WaitLoopHead
       \/ WaitPoll
       \/ WaitSleepDone
    /\ UNCHANGED nonWaitVars

WaitNext ==
    \/ CallWaitForReviewCompletion
    \/ WaitStep

WaitIdle == WaitStart


(***************************************************************************)
(* runPreflightGate, one action per stretch between two awaits.            *)
(***************************************************************************)
\* The changed files the gate is run on.
GateFileUniverse ==
    { "README.md", "db/schema.ts", ".github/workflows/ci.yml",
      "docs/playbooks/pr-lifecycle.md" }

GateFileLists ==
    UNION { [1..n -> GateFileUniverse] : n \in 0..MaxGateFiles }

\* What the contract file can hold: nothing readable, text that is not JSON,
\* null, a contract with a review timeout, and objects that differ from a
\* contract in one place.
ContractFiles ==
    { [kind |-> "unreadable", fields |-> <<>>],
      [kind |-> "malformed", fields |-> <<>>],
      [kind |-> "null", fields |-> <<>>] }
    \cup { ObjectFile(ContractObject(c, t)) : c \in Contracts, t \in 0..MaxTimeoutMinutes }
    \cup { ObjectFile(WithoutKey(ContractObject(ContractA, 1), "reviewAgent")),
           ObjectFile([ContractObject(ContractA, 1) EXCEPT
                          !.riskTierRules = [high |-> JsonArray(<<"db/schema.ts">>)]]),
           ObjectFile([ContractObject(ContractA, 1) EXCEPT
                          !.mergePolicy.low.requiredChecks = JsonString("CI Pipeline")]),
           ObjectFile([ContractObject(ContractA, 1) EXCEPT
                          !.riskTierRules.high = JsonString("db/schema.ts")]),
           ObjectFile([ContractObject(ContractA, 1) EXCEPT
                          !.mergePolicy.low.requiredChecks = JsonArray(<<>>)]) }

GateStart ==
    /\ gateOpts \in [changedFiles : GateFileLists, headSha : HeadShas, pollReview : BOOLEAN]
    /\ contractFile \in ContractFiles
    /\ gatePc = "idle"
    /\ riskTier = "low"
    /\ requiredChecks = <<>>
    /\ reviewRequired = FALSE
    /\ errors = <<>>
    /\ docsDriftChecked = FALSE
    /\ result = <<>>
    /\ gateError = ""

\* passed: errors.length === 0, and its negation in the variant the
\* properties are tried against
passedOfInverted(errs) == Len(errs) # 0

passedOf(errs) == Len(errs) = 0

PreflightResult(tier, required, reviewReq, reviewClean, errs) ==
    [ riskTier |-> tier,
      requiredChecks |-> required,
      reviewRequired |-> reviewReq,
      reviewClean |-> reviewClean,
      passed |-> passedOf(errs),
      errors |-> errs ]

\* The run rejects with a message; nothing else of it is left.
GateRejects(message) ==
    /\ gatePc' = "rejected"
    /\ gateError' = message
    /\ UNCHANGED <<gateOpts, contractFile, riskTier, requiredChecks, reviewRequired,
                   errors, docsDriftChecked, result>>
    /\ UNCHANGED waitVars

\* The run from its call to its first await after the contract is loaded: the
\* contract is loaded, the tier, the required checks and the review
\* requirement are computed, the docs-drift rule is checked inside its try,
\* and either the review is waited for or the result is returned.
RunPreflightGate ==
    /\ gatePc = "idle"
    /\ \E loaded \in {loadContract(contractFile)} :
         IF loaded.error # "" THEN GateRejects(loaded.error)
         ELSE \E typeError \in {computeRiskTierError(gateOpts.changedFiles, loaded.data[1])} :
              IF typeError # "" THEN GateRejects(typeError)
              ELSE \E c \in {ContractOf(loaded.data[1])} :
                   \E tier \in {computeRiskTier(gateOpts.changedFiles, c,
                                                EMPTY_HISTORICAL_METADATA)},
                      required \in {computeRequiredChecks(gateOpts.changedFiles, c,
                                                          EMPTY_HISTORICAL_METADATA)},
                      reviewReq \in {needsCodeReviewAgent(gateOpts.changedFiles, c,
                                                          EMPTY_HISTORICAL_METADATA)},
                      drift \in {assertDocsDriftRules(gateOpts.changedFiles, c)} :
                   \E errs \in {IF drift = "ok" THEN <<>> ELSE <<drift>>} :
                      /\ riskTier' = tier
                      /\ requiredChecks' = required
                      /\ reviewRequired' = reviewReq
                      /\ errors' = errs
                      /\ docsDriftChecked' = TRUE
                      /\ UNCHANGED <<gateOpts, contractFile, gateError>>
                      /\ IF reviewReq /\ gateOpts.pollReview
                           THEN /\ gatePc' = "awaitReview"
                                /\ result' = <<>>
                                /\ WaitBegin(gateOpts.headSha,
                                             loaded.data[1].reviewAgent.timeoutMinutes)
                           ELSE /\ gatePc' = "returned"
                                /\ result' =
                                     <<PreflightResult(tier, required, reviewReq, TRUE, errs)>>
                                /\ UNCHANGED waitVars
    /\ UNCHANGED nonGateVars

\* waitForReviewCompletion has settled: its state is asserted clean, or the
\* error of either is caught, and the result is returned.
GateReviewSettles ==
    /\ gatePc = "awaitReview"
    /\ wpc \in {"returned", "timedout", "rejected"}
    /\ \E message \in {IF wpc = "returned"
                         THEN assertReviewCleanForHead(state[1], gateOpts.headSha)
                         ELSE waitError} :
       \E errs \in {IF message = "ok" THEN errors ELSE Append(errors, message)} :
          /\ errors' = errs
          /\ result' = <<PreflightResult(riskTier, requiredChecks, reviewRequired,
                                         message = "ok", errs)>>
    /\ gatePc' = "returned"
    /\ UNCHANGED <<gateOpts, contractFile, riskTier, requiredChecks, reviewRequired,
                   docsDriftChecked, gateError>>
    /\ UNCHANGED waitVars
    /\ UNCHANGED nonGateVars

GateNext ==
    \/ RunPreflightGate
    \/ WaitStep
    \/ GateReviewSettles

GateIdle ==
    /\ gateOpts = [changedFiles |-> <<>>, headSha |-> "abc", pollReview |-> FALSE]
    /\ contractFile = [kind |-> "unreadable", fields |-> <<>>]
    /\ gatePc = "idle"
    /\ riskTier = "low"
    /\ requiredChecks = <<>>
    /\ reviewRequired = FALSE
    /\ errors = <<>>
    /\ docsDriftChecked = FALSE
    /\ result = <<>>
    /\ gateError = ""


(***************************************************************************)
(* runRemediationLoop, one action per stretch between two awaits.          *)
(***************************************************************************)
FindingLists ==
    UNION { [1..n -> FindingUniverse] : n \in 0..MaxFindings }

RemediationConfigs ==
    [pinModel : {TRUE}, skipStaleComments : BOOLEAN, maxAttempts : 0..MaxAttemptsCap]

\* What an applyFix or validate call settles with: a boolean, a thrown Error,
\* or a throw or rejection without a value (throw undefined, Promise.reject()).
CallbackOutcomes == {"true", "false", "throws", "throwsUndefined"}

\* The call of the log that is pending has settled.
SettleLast(log, outcome) == [log EXCEPT ![Len(log)].outcome = outcome]

\* The message a throwing callback throws.
CallbackErrorMessage == "agent unavailable"

RemStart ==
    /\ remOpts \in [findings : FindingLists, currentHeadSha : {"abc"},
                    config : RemediationConfigs]
    /\ rpc = "idle"
    /\ actionable = <<>>
    /\ cursor = 1
    /\ remResult = [attempted |-> 0, succeeded |-> 0, skipped |-> 0, errors |-> <<>>]
    /\ applyLog = <<>>
    /\ validateCalls = 0
    /\ callLog = <<>>

\* `${finding.file}:${finding.line}`
FindingLocation(finding) == finding.file \o ":" \o NumberToString(finding.line)

\* The test that stops the loop, and the variant the properties are tried
\* against, which lets one more finding through.
ReachedMaxAttemptsLate(attempted, maxAttempts) == attempted > maxAttempts

ReachedMaxAttempts(attempted, maxAttempts) == attempted >= maxAttempts

\* The run up to its loop: the findings are filtered and adjudicated and the
\* result is set up.
CallRunRemediationLoop ==
    /\ rpc = "idle"
    /\ \E filtered \in {filterCurrentFindings(remOpts.findings, remOpts.currentHeadSha,
                                              remOpts.config)} :
         /\ actionable' = filtered
         /\ remResult' = [attempted |-> 0, succeeded |-> 0,
                          skipped |-> Len(remOpts.findings) - Len(filtered),
                          errors |-> <<>>]
    /\ cursor' = 1
    /\ rpc' = "loop"
    /\ UNCHANGED <<remOpts, applyLog, validateCalls, callLog>>
    /\ UNCHANGED nonRemVars

\* The head of the for loop: the run returns after the last finding, stops
\* with an error at the attempt limit, or counts an attempt and calls applyFix.
RemLoopHead ==
    /\ rpc = "loop"
    /\ IF cursor > Len(actionable)
         THEN /\ rpc' = "done"
              /\ UNCHANGED <<remResult, applyLog, callLog>>
         ELSE IF ReachedMaxAttempts(remResult.attempted, remOpts.config.maxAttempts)
         THEN /\ remResult' =
                   [remResult EXCEPT !.errors =
                       Append(@, "Reached max remediation attempts ("
                                   \o NumberToString(remOpts.config.maxAttempts) \o ")")]
              /\ rpc' = "done"
              /\ UNCHANGED <<applyLog, callLog>>
         ELSE /\ remResult' = [remResult EXCEPT !.attempted = @ + 1]
              /\ applyLog' = Append(applyLog, FindingLocation(actionable[cursor]))
              /\ callLog' = Append(callLog, [call |-> "applyFix", finding |-> cursor,
                                             outcome |-> "pending"])
              /\ rpc' = "applying"
    /\ UNCHANGED <<remOpts, actionable, cursor, validateCalls>>
    /\ UNCHANGED nonRemVars

\* The applyFix call settles: validate is called after a fix, a false or a
\* thrown Error is recorded as an error, and a throw without a value makes
\* the catch block itself throw on err.message, which rejects the run.
ApplyFixSettles ==
    /\ rpc = "applying"
    /\ \E outcome \in CallbackOutcomes :
         IF outcome = "true"
         THEN /\ rpc' = "validating"
              /\ validateCalls' = validateCalls + 1
              /\ callLog' = Append(SettleLast(callLog, outcome),
                                   [call |-> "validate", finding |-> cursor,
                                    outcome |-> "pending"])
              /\ UNCHANGED <<remResult, cursor>>
         ELSE IF outcome = "throwsUndefined"
         THEN /\ rpc' = "rejected"
              /\ callLog' = SettleLast(callLog, outcome)
              /\ UNCHANGED <<remResult, cursor, validateCalls>>
         ELSE /\ remResult' =
                   [remResult EXCEPT !.errors =
                       Append(@, IF outcome = "false"
                                 THEN "Could not apply fix for "
                                        \o FindingLocation(actionable[cursor])
                                 ELSE "Error fixing " \o FindingLocation(actionable[cursor])
                                        \o ": " \o CallbackErrorMessage)]
              /\ cursor' = cursor + 1
              /\ rpc' = "loop"
              /\ callLog' = SettleLast(callLog, outcome)
              /\ UNCHANGED validateCalls
    /\ UNCHANGED <<remOpts, actionable, applyLog>>
    /\ UNCHANGED nonRemVars

\* The validate call settles: the fix is counted, or an error is recorded, or
\* the run rejects as above.
ValidateSettles ==
    /\ rpc = "validating"
    /\ \E outcome \in CallbackOutcomes :
         /\ callLog' = SettleLast(callLog, outcome)
         /\ IF outcome = "throwsUndefined"
            THEN /\ rpc' = "rejected"
                 /\ UNCHANGED <<remResult, cursor>>
            ELSE /\ remResult' =
                      IF outcome = "true" THEN [remResult EXCEPT !.succeeded = @ + 1]
                      ELSE [remResult EXCEPT !.errors =
                               Append(@, IF outcome = "false"
                                         THEN "Fix for " \o FindingLocation(actionable[cursor])
                                                \o " failed validation"
                                         ELSE "Error fixing "
                                                \o FindingLocation(actionable[cursor])
                                                \o ": " \o CallbackErrorMessage)]
                 /\ cursor' = cursor + 1
                 /\ rpc' = "loop"
    /\ UNCHANGED <<remOpts, actionable, applyLog, validateCalls>>
    /\ UNCHANGED nonRemVars

RemNext ==
    \/ CallRunRemediationLoop
    \/ RemLoopHead
    \/ ApplyFixSettles
    \/ ValidateSettles

RemIdle ==
    /\ remOpts = [findings |-> <<>>, currentHeadSha |-> "abc",
                  config |-> [pinModel |-> TRUE, skipStaleComments |-> TRUE,
                              maxAttempts |-> 0]]
    /\ rpc = "idle"
    /\ actionable = <<>>
    /\ cursor = 1
    /\ remResult = [attempted |-> 0, succeeded |-> 0, skipped |-> 0, errors |-> <<>>]
    /\ applyLog = <<>>
    /\ validateCalls = 0
    /\ callLog = <<>>


(***************************************************************************)
(* validateBrowserEvidence as an operation on a manifest.                  *)
(***************************************************************************)
EvidenceStart ==
    /\ manifest \in [headSha : HeadShas, entries : {<<>>}]
    /\ evidenceContract \in Contracts
    /\ evidenceHeadSha \in HeadShas
    /\ evidenceOutcome = "none"

\* The capture adds one more entry to the manifest.
AddEvidenceEntry ==
    /\ Len(manifest.entries) < MaxEntries
    /\ evidenceOutcome = "none"
    /\ \E entry \in EvidenceEntries :
         manifest' = [manifest EXCEPT !.entries = Append(@, entry)]
    /\ UNCHANGED <<evidenceContract, evidenceHeadSha, evidenceOutcome>>
    /\ UNCHANGED nonEvidenceVars

CallValidateBrowserEvidence ==
    /\ evidenceOutcome = "none"
    /\ evidenceOutcome' =
         validateBrowserEvidence(manifest, evidenceContract, evidenceHeadSha, EvidenceNow)
    /\ UNCHANGED <<manifest, evidenceContract, evidenceHeadSha>>
    /\ UNCHANGED nonEvidenceVars

EvidenceNext ==
    \/ AddEvidenceEntry
    \/ CallValidateBrowserEvidence

EvidenceIdle ==
    /\ manifest = [headSha |-> "abc", entries |-> <<>>]
    /\ evidenceContract = ContractA
    /\ evidenceHeadSha = "abc"
    /\ evidenceOutcome = "none"

(***************************************************************************)
(* The single-check and the review assertion, each called on its own.      *)
(***************************************************************************)
AssertStart ==
    /\ assertedSha \in HeadShas
    /\ assertedCheck = <<>>
    /\ assertedCheckOutcome = "none"
    /\ assertedReview = <<>>
    /\ assertedReviewOutcome = "none"

CallAssertCheckForCurrentHead ==
    /\ assertedCheckOutcome = "none"
    /\ \E c \in CheckRunResults :
         /\ assertedCheck' = <<c>>
         /\ assertedCheckOutcome' = assertCheckForCurrentHead(c, assertedSha)
    /\ UNCHANGED <<assertedSha, assertedReview, assertedReviewOutcome>>
    /\ UNCHANGED nonAssertVars

CallAssertReviewCleanForHead ==
    /\ assertedReviewOutcome = "none"
    /\ \E r \in ReviewStates :
         /\ assertedReview' = <<r>>
         /\ assertedReviewOutcome' = assertReviewCleanForHead(r, assertedSha)
    /\ UNCHANGED <<assertedSha, assertedCheck, assertedCheckOutcome>>
    /\ UNCHANGED nonAssertVars

AssertNext ==
    \/ CallAssertCheckForCurrentHead
    \/ CallAssertReviewCleanForHead

AssertIdle ==
    /\ assertedSha = "abc"
    /\ assertedCheck = <<>>
    /\ assertedCheckOutcome = "none"
    /\ assertedReview = <<>>
    /\ assertedReviewOutcome = "none"

(***************************************************************************)
(* adjudicateFindings and filterCurrentFindings, called on their own.      *)
(***************************************************************************)
NotCalled == [called |-> FALSE, value |-> <<>>]

Returned(value) == [called |-> TRUE, value |-> value]

FindingsStart ==
    /\ findingsInput \in FindingLists
    /\ findingsHeadSha \in HeadShas
    /\ findingsConfig \in [pinModel : {TRUE}, skipStaleComments : BOOLEAN, maxAttempts : {1}]
    /\ adjudicated = NotCalled
    /\ readjudicated = NotCalled
    /\ filteredResult = NotCalled

CallAdjudicateFindings ==
    /\ ~adjudicated.called
    /\ adjudicated' = Returned(adjudicateFindings(findingsInput))
    /\ UNCHANGED <<findingsInput, findingsHeadSha, findingsConfig, readjudicated, filteredResult>>
    /\ UNCHANGED nonFindingsVars

\* adjudicateFindings called on the list it returned.
CallAdjudicateFindingsAgain ==
    /\ adjudicated.called
    /\ ~readjudicated.called
    /\ readjudicated' = Returned(adjudicateFindings(adjudicated.value))
    /\ UNCHANGED <<findingsInput, findingsHeadSha, findingsConfig, adjudicated, filteredResult>>
    /\ UNCHANGED nonFindingsVars

CallFilterCurrentFindings ==
    /\ ~filteredResult.called
    /\ filteredResult' =
           Returned(filterCurrentFindings(findingsInput, findingsHeadSha, findingsConfig))
    /\ UNCHANGED <<findingsInput, findingsHeadSha, findingsConfig, adjudicated, readjudicated>>
    /\ UNCHANGED nonFindingsVars

FindingsNext ==
    \/ CallAdjudicateFindings
    \/ CallAdjudicateFindingsAgain
    \/ CallFilterCurrentFindings

FindingsIdle ==
    /\ findingsInput = <<>>
    /\ findingsHeadSha = "abc"
    /\ findingsConfig = [pinModel |-> TRUE, skipStaleComments |-> TRUE, maxAttempts |-> 1]
    /\ adjudicated = NotCalled
    /\ readjudicated = NotCalled
    /\ filteredResult = NotCalled

(***************************************************************************)
(* Auto-resolve of bot-only review threads, after the written contract of  *)
(* findAutoResolvableThreads and autoResolveBotThreads and their tests.    *)
(***************************************************************************)
\* The comment lists of the model: none, the bot alone, the bot and a human
\* in both orders, a human alone, and another bot alone.
ThreadCommentLists ==
    { <<>>,
      <<[user |-> "bot", body |-> "issue"]>>,
      <<[user |-> "bot", body |-> "issue"], [user |-> "bot", body |-> "more"]>>,
      <<[user |-> "bot", body |-> "issue"], [user |-> "human", body |-> "context"]>>,
      <<[user |-> "human", body |-> "question"], [user |-> "bot", body |-> "answer"]>>,
      <<[user |-> "human", body |-> "question"]>>,
      <<[user |-> "greptile[bot]", body |-> "finding"]>> }

\* Lists of threads with ids t1, t2, ... in order.
ThreadLists ==
    UNION { { [i \in 1..n |-> [id |-> "t" \o NatToString(i), isResolved |-> flags[i],
                               comments |-> lists[i]]] :
                flags \in [1..n -> BOOLEAN], lists \in [1..n -> ThreadCommentLists] } :
            n \in 0..MaxThreads }

\* A selection that forgets the resolved flag.
findAutoResolvableThreadsAnyState(threads, botUser) ==
    LET IsBotOnly(thread) ==
            /\ Len(thread.comments) > 0
            /\ \A i \in 1..Len(thread.comments) : thread.comments[i].user = botUser
    IN FilterSeq(threads, IsBotOnly)

\* The unresolved threads with at least one comment, all by botUser.
findAutoResolvableThreads(threads, botUser) ==
    LET IsResolvable(thread) ==
            /\ ~thread.isResolved
            /\ Len(thread.comments) > 0
            /\ \A i \in 1..Len(thread.comments) : thread.comments[i].user = botUser
    IN FilterSeq(threads, IsResolvable)

ThreadIds(threads) == [i \in 1..Len(threads) |-> threads[i].id]

ThreadsStart ==
    /\ threadOpts \in [threads : ThreadLists, botUser : {"bot"}]
    /\ tpc = "idle"
    /\ resolvable = <<>>
    /\ threadCursor = 1
    /\ threadResult = [resolved |-> <<>>, skipped |-> <<>>]
    /\ resolveLog = <<>>

\* The run up to its loop: the resolvable threads are selected and the other
\* unresolved threads are reported as skipped.
CallAutoResolveBotThreads ==
    /\ tpc = "idle"
    /\ \E selected \in {findAutoResolvableThreads(threadOpts.threads, threadOpts.botUser)} :
         /\ resolvable' = selected
         /\ threadResult' =
               LET IsSkipped(thread) ==
                       ~thread.isResolved /\ thread.id \notin SeqToSet(ThreadIds(selected))
               IN [resolved |-> <<>>,
                   skipped |-> ThreadIds(FilterSeq(threadOpts.threads, IsSkipped))]
    /\ threadCursor' = 1
    /\ tpc' = "loop"
    /\ UNCHANGED <<threadOpts, resolveLog>>
    /\ UNCHANGED nonThreadVars

\* The head of the loop: the run returns after the last resolvable thread, or
\* calls resolveFn with the id of the next one.
ThreadLoopHead ==
    /\ tpc = "loop"
    /\ IF threadCursor > Len(resolvable)
         THEN /\ tpc' = "done"
              /\ UNCHANGED resolveLog
         ELSE /\ resolveLog' = Append(resolveLog, [id |-> resolvable[threadCursor].id,
                                                    outcome |-> "pending"])
              /\ tpc' = "resolving"
    /\ UNCHANGED <<threadOpts, resolvable, threadCursor, threadResult>>
    /\ UNCHANGED nonThreadVars

\* The awaited resolveFn call settles and the thread is reported as resolved.
ResolveFnSettles ==
    /\ tpc = "resolving"
    /\ resolveLog' = [resolveLog EXCEPT ![Len(resolveLog)].outcome = "settled"]
    /\ threadResult' =
          [threadResult EXCEPT !.resolved = Append(@, resolvable[threadCursor].id)]
    /\ threadCursor' = threadCursor + 1
    /\ tpc' = "loop"
    /\ UNCHANGED <<threadOpts, resolvable>>
    /\ UNCHANGED nonThreadVars

ThreadsNext ==
    \/ CallAutoResolveBotThreads
    \/ ThreadLoopHead
    \/ ResolveFnSettles

ThreadsIdle ==
    /\ threadOpts = [threads |-> <<>>, botUser |-> "bot"]
    /\ tpc = "idle"
    /\ resolvable = <<>>
    /\ threadCursor = 1
    /\ threadResult = [resolved |-> <<>>, skipped |-> <<>>]
    /\ resolveLog = <<>>

(***************************************************************************)
(* globToRegExp(pattern).test(path), called on its own.                    *)
(***************************************************************************)
\* The strings of up to n characters over an alphabet.
RECURSIVE StringsOver(_, _)
StringsOver(alphabet, n) ==
    IF n = 0 THEN {""}
    ELSE LET shorter == StringsOver(alphabet, n - 1)
         IN shorter \cup {str \o c : str \in shorter, c \in alphabet}

\* Patterns and paths over a letter, the separator, the wildcard, a
\* metacharacter the code escapes and one it does not.
GlobPatterns == StringsOver({"a", "/", "*", ".", "?"}, MaxPatternLength)

GlobPaths == StringsOver({"a", "/", ".", "?"}, MaxPathLength)

GlobStart ==
    /\ globPattern \in GlobPatterns
    /\ globPath \in GlobPaths
    /\ globOutcome = "none"

\* new RegExp throws for a source it cannot compile; test returns a boolean.
CallGlobToRegExpTest ==
    /\ globOutcome = "none"
    /\ \E source \in {globToRegExp(globPattern)} :
         globOutcome' = IF RegExpSyntaxError(source) THEN "SyntaxError"
                        ELSE IF RegExpTest(source, globPath) THEN "true"
                        ELSE "false"
    /\ UNCHANGED <<globPattern, globPath>>
    /\ UNCHANGED nonGlobVars

GlobNext == CallGlobToRegExpTest

GlobIdle ==
    /\ globPattern = ""
    /\ globPath = ""
    /\ globOutcome = "none"

(***************************************************************************)
(* Workflow runs that read the comments of the pull request, evaluate      *)
(* maybeRerunComment and post what it returns.                             *)
(***************************************************************************)
RerunShas == {"abc123", "def456"}

\* The comments on the pull request before any run: none, a remark, a rerun
\* request for one of the SHAs, or one for an older SHA.
InitialComments ==
    { <<>>,
      <<[id |-> 1, body |-> "looks good", user |-> "human"]>>,
      <<[id |-> 1, body |-> buildRerunComment("abc123"), user |-> "bot"]>>,
      <<[id |-> 1, body |-> buildRerunComment("000000"), user |-> "bot"]>> }

RerunStart ==
    /\ prComments \in InitialComments
    /\ runSha \in [1..MaxRuns -> RerunShas]
    /\ runPc = [r \in 1..MaxRuns |-> "start"]
    /\ runComments = [r \in 1..MaxRuns |-> <<>>]

\* A run lists the comments of the pull request.
RunReadsComments(r) ==
    /\ runPc[r] = "start"
    /\ runComments' = [runComments EXCEPT ![r] = prComments]
    /\ runPc' = [runPc EXCEPT ![r] = "evaluating"]
    /\ UNCHANGED <<prComments, runSha>>
    /\ UNCHANGED nonRerunVars

\* A run evaluates maybeRerunComment on the comments it has read and posts
\* the body it returns, if any.
RunPostsComment(r) ==
    /\ runPc[r] = "evaluating"
    /\ \E body \in {maybeRerunComment(runComments[r], runSha[r])} :
         prComments' = IF body = <<>> THEN prComments
                       ELSE Append(prComments, [id |-> Len(prComments) + 1,
                                                body |-> body[1], user |-> "bot"])
    /\ runPc' = [runPc EXCEPT ![r] = "done"]
    /\ UNCHANGED <<runSha, runComments>>
    /\ UNCHANGED nonRerunVars

RerunNext ==
    \E r \in 1..MaxRuns :
        \/ RunReadsComments(r)
        \/ RunPostsComment(r)

RerunIdle ==
    /\ prComments = <<>>
    /\ runSha = [r \in 1..MaxRuns |-> "abc123"]
    /\ runPc = [r \in 1..MaxRuns |-> "start"]
    /\ runComments = [r \in 1..MaxRuns |-> <<>>]

(***************************************************************************)
(* TaskRunner: submit, register, initialize and the executeRun calls they  *)
(* start, one action per stretch between two awaits.  No state file is     *)
(* configured, so loadState and persistState only yield.                   *)
(***************************************************************************)
TaskNames == {"build", "deploy"}

TaskRunnerStart ==
    /\ definitions = {}
    /\ taskRuns = <<>>
    /\ registerCalls = 0
    /\ initializePc = "idle"

\* The head of executeRun, up to its first await: the run is running.
BeginExecuteRun(run) ==
    [run EXCEPT !.status = "running",
                !.executing = @ + 1,
                !.history = IF run.status = "running" THEN @ ELSE Append(@, "running")]

\* resumePendingRuns: executeRun is called for every queued or running run
\* whose definition is registered.
resumePendingRuns(runs, defs) ==
    [i \in 1..Len(runs) |->
        IF runs[i].status \in {"queued", "running"} /\ runs[i].taskName \in defs
        THEN BeginExecuteRun(runs[i]) ELSE runs[i]]

\* register: the definition is stored and the pending runs are resumed.
Register ==
    /\ registerCalls < MaxRegisterCalls
    /\ \E name \in TaskNames :
         /\ definitions' = definitions \cup {name}
         /\ taskRuns' = resumePendingRuns(taskRuns, definitions \cup {name})
    /\ registerCalls' = registerCalls + 1
    /\ UNCHANGED initializePc
    /\ UNCHANGED nonTaskVars

\* submit up to its await of persistState: an unknown task is refused, a
\* known one gets a queued run.
Submit ==
    /\ Len(taskRuns) < MaxTaskRuns
    /\ \E name \in TaskNames :
         taskRuns' = IF name \notin definitions THEN taskRuns
                     ELSE Append(taskRuns, [taskName |-> name, status |-> "queued",
                                            submitting |-> TRUE, executing |-> 0,
                                            history |-> <<"queued">>])
    /\ UNCHANGED <<definitions, registerCalls, initializePc>>
    /\ UNCHANGED nonTaskVars

\* submit after persistState: executeRun is called and the id is returned.
SubmitCallsExecuteRun ==
    /\ \E i \in 1..Len(taskRuns) :
         /\ taskRuns[i].submitting
         /\ taskRuns' = [taskRuns EXCEPT
                            ![i] = [BeginExecuteRun(taskRuns[i]) EXCEPT !.submitting = FALSE]]
    /\ UNCHANGED <<definitions, registerCalls, initializePc>>
    /\ UNCHANGED nonTaskVars

\* An executeRun call reaches the end of its try block: the retry policy has
\* resolved and the run is done, or it has rejected and the run is failed.
ExecuteRunSettles ==
    /\ \E i \in 1..Len(taskRuns) :
         /\ taskRuns[i].executing > 0
         /\ \E outcome \in {"done", "failed"} :
              taskRuns' = [taskRuns EXCEPT
                              ![i].status = outcome,
                              ![i].executing = @ - 1,
                              ![i].history = IF taskRuns[i].status = outcome THEN @
                                             ELSE Append(@, outcome)]
    /\ UNCHANGED <<definitions, registerCalls, initializePc>>
    /\ UNCHANGED nonTaskVars

\* initialize up to its await of loadState.
Initialize ==
    /\ initializePc = "idle"
    /\ initializePc' = "loading"
    /\ UNCHANGED <<definitions, taskRuns, registerCalls>>
    /\ UNCHANGED nonTaskVars

\* initialize after loadState: the pending runs are resumed.
InitializeResumes ==
    /\ initializePc = "loading"
    /\ taskRuns' = resumePendingRuns(taskRuns, definitions)
    /\ initializePc' = "done"
    /\ UNCHANGED <<definitions, registerCalls>>
    /\ UNCHANGED nonTaskVars

TaskRunnerNext ==
    \/ Register
    \/ Submit
    \/ SubmitCallsExecuteRun
    \/ ExecuteRunSettles
    \/ Initialize
    \/ InitializeResumes

TaskRunnerIdle == TaskRunnerStart

(***************************************************************************)
(* Specifications.                                                         *)
(***************************************************************************)
RiskInit == RiskStart /\ ChecksIdle /\ WaitIdle /\ GateIdle /\ RemIdle /\ EvidenceIdle /\ AssertIdle
    /\ FindingsIdle /\ ThreadsIdle /\ GlobIdle /\ RerunIdle /\ TaskRunnerIdle

SpecRisk == RiskInit /\ [][RiskNext]_vars

ChecksInit == ChecksStart /\ RiskIdle /\ WaitIdle /\ GateIdle /\ RemIdle /\ EvidenceIdle /\ AssertIdle
    /\ FindingsIdle /\ ThreadsIdle /\ GlobIdle /\ RerunIdle /\ TaskRunnerIdle

SpecChecks == ChecksInit /\ [][ChecksNext]_vars

WaitInit == WaitStart /\ RiskIdle /\ ChecksIdle /\ GateIdle /\ RemIdle /\ EvidenceIdle /\ AssertIdle
    /\ FindingsIdle /\ ThreadsIdle /\ GlobIdle /\ RerunIdle /\ TaskRunnerIdle

SpecWait == WaitInit /\ [][WaitNext]_vars

GateInit == GateStart /\ RiskIdle /\ ChecksIdle /\ WaitIdle /\ RemIdle /\ EvidenceIdle /\ AssertIdle
    /\ FindingsIdle /\ ThreadsIdle /\ GlobIdle /\ RerunIdle /\ TaskRunnerIdle

SpecGate == GateInit /\ [][GateNext]_vars

\* The gate run in a repository whose risk-signals.metadata.json holds
\* historicalMetadata.
GateHistoryInit ==
    /\ GateStart
    /\ changedFiles = <<>>
    /\ contract = ContractA
    /\ historicalMetadata \in RepositoryMetadatas
    /\ assessment = <<>>
    /\ driftOutcome = "none"
    /\ ChecksIdle /\ WaitIdle /\ RemIdle /\ EvidenceIdle /\ AssertIdle
    /\ FindingsIdle /\ ThreadsIdle /\ GlobIdle /\ RerunIdle /\ TaskRunnerIdle

SpecGateHistory == GateHistoryInit /\ [][GateNext]_vars

RemInit == RemStart /\ RiskIdle /\ ChecksIdle /\ WaitIdle /\ GateIdle /\ EvidenceIdle /\ AssertIdle
    /\ FindingsIdle /\ ThreadsIdle /\ GlobIdle /\ RerunIdle /\ TaskRunnerIdle

SpecRemediation == RemInit /\ [][RemNext]_vars

EvidenceInit ==
    EvidenceStart /\ RiskIdle /\ ChecksIdle /\ WaitIdle /\ GateIdle /\ RemIdle /\ AssertIdle
    /\ FindingsIdle /\ ThreadsIdle /\ GlobIdle /\ RerunIdle /\ TaskRunnerIdle

AssertInit ==
    AssertStart /\ RiskIdle /\ ChecksIdle /\ WaitIdle /\ GateIdle /\ RemIdle /\ EvidenceIdle
    /\ FindingsIdle /\ ThreadsIdle /\ GlobIdle /\ RerunIdle /\ TaskRunnerIdle

SpecAssert == AssertInit /\ [][AssertNext]_vars

FindingsInit ==
    /\ FindingsStart /\ RiskIdle /\ ChecksIdle /\ WaitIdle /\ GateIdle /\ RemIdle
    /\ EvidenceIdle /\ AssertIdle /\ ThreadsIdle /\ GlobIdle /\ RerunIdle /\ TaskRunnerIdle

ThreadsInit ==
    /\ ThreadsStart /\ RiskIdle /\ ChecksIdle /\ WaitIdle /\ GateIdle /\ RemIdle
    /\ EvidenceIdle /\ AssertIdle /\ FindingsIdle /\ GlobIdle /\ RerunIdle /\ TaskRunnerIdle

SpecThreads == ThreadsInit /\ [][ThreadsNext]_vars

GlobInit ==
    /\ GlobStart /\ RiskIdle /\ ChecksIdle /\ WaitIdle /\ GateIdle /\ RemIdle
    /\ EvidenceIdle /\ AssertIdle /\ FindingsIdle /\ ThreadsIdle /\ RerunIdle /\ TaskRunnerIdle

SpecGlob == GlobInit /\ [][GlobNext]_vars

RerunInit ==
    /\ RerunStart /\ RiskIdle /\ ChecksIdle /\ WaitIdle /\ GateIdle /\ RemIdle
    /\ EvidenceIdle /\ AssertIdle /\ FindingsIdle /\ ThreadsIdle /\ GlobIdle /\ TaskRunnerIdle

SpecRerun == RerunInit /\ [][RerunNext]_vars

TaskRunnerInit ==
    /\ TaskRunnerStart /\ RiskIdle /\ ChecksIdle /\ WaitIdle /\ GateIdle /\ RemIdle
    /\ EvidenceIdle /\ AssertIdle /\ FindingsIdle /\ ThreadsIdle /\ GlobIdle /\ RerunIdle

SpecTaskRunner == TaskRunnerInit /\ [][TaskRunnerNext]_vars

SpecFindings == FindingsInit /\ [][FindingsNext]_vars

SpecEvidence == EvidenceInit /\ [][EvidenceNext]_vars

\* Every pollFn call settles and every timer fires.
SpecWaitFair == WaitInit /\ [][WaitNext]_vars /\ WF_vars(WaitNext)

(***************************************************************************)
(* Properties of the required-checks assertion.                            *)
(***************************************************************************)
\* C1: assertRequiredChecksSuccessful returns without error only if, for every
\* required name, checks contains a check of that name whose headSha is the
\* current head SHA, whose status is completed and whose conclusion is
\* success; the check it accepts for a name (the first of that name) is never
\* one recorded for another revision, still queued or in progress, or
\* unsuccessful.
C1_RequiredChecksCurrent ==
    checksOutcome = "ok" =>
        \A n \in SeqToSet(requiredNames) :
            /\ \E i \in 1..Len(checks) :
                  /\ checks[i].name = n
                  /\ checks[i].headSha = currentHeadSha
                  /\ checks[i].status = "completed"
                  /\ checks[i].conclusion = "success"
            /\ \A i \in 1..Len(checks) :
                  (checks[i].name = n /\ \A j \in 1..(i - 1) : checks[j].name # n) =>
                      /\ checks[i].headSha = currentHeadSha
                      /\ checks[i].status \notin {"queued", "in_progress"}
                      /\ checks[i].conclusion = "success"

\* The assertion returned for two required names.
C1_Witness ==
    /\ checksOutcome = "ok"
    /\ Len(requiredNames) = 2
    /\ Len(checks) = 2


(***************************************************************************)
(* Properties of the risk assessment and of the docs-drift check.          *)
(***************************************************************************)
\* Every sequence that lists the elements of q in some order.
SeqPermutations(q) ==
    LET n == Len(q)
        Bijections == {f \in [1..n -> 1..n] : \A i, j \in 1..n : f[i] = f[j] => i = j}
    IN {[i \in 1..n |-> q[f[i]]] : f \in Bijections}

\* C5: computeRiskAssessment returns the same assessment (tier, score,
\* threshold, changedFiles, triggered signals with their matched files, score
\* breakdown) for every permutation of the changed-file list.
C5_OrderIndependent ==
    assessment # <<>> =>
        \A p \in SeqPermutations(changedFiles) :
            computeRiskAssessment(p, contract, historicalMetadata) = assessment[1]

\* An assessment of a list that is not in sorted order, with a signal that
\* lists at least two matched files.
C5_Witness ==
    /\ assessment # <<>>
    /\ Len(changedFiles) >= 2
    /\ changedFiles # assessment[1].changedFiles
    /\ \E i \in 1..Len(assessment[1].explanation.triggeredSignals) :
          Len(assessment[1].explanation.triggeredSignals[i].matchedFiles) >= 2

\* Every pattern that can trigger a signal for the inputs of the state.
SignalPatterns ==
    SeqToSet(contract.riskTierRules.high)
      \cup UNION {SeqToSet(SEMANTIC_SIGNALS[i].patterns) : i \in 1..Len(SEMANTIC_SIGNALS)}
      \cup {historicalMetadata.recentFlakyTests[i].pattern :
              i \in 1..Len(historicalMetadata.recentFlakyTests)}
      \cup {historicalMetadata.incidentTaggedFiles[i].pattern :
              i \in 1..Len(historicalMetadata.incidentTaggedFiles)}
      \cup {historicalMetadata.priorRollbackAreas[i].pattern :
              i \in 1..Len(historicalMetadata.priorRollbackAreas)}

NoSignalPatternMatches ==
    \A f \in SeqToSet(changedFiles) : \A p \in SignalPatterns : ~GlobTest(p, f)

\* C6: in every assessment, score is the sum of the weights of the triggered
\* signals, threshold is 60, tier is high exactly when score >= 60 and low
\* otherwise; when no changed file matches a high-tier, semantic or historical
\* pattern, score is 0 and tier is low.
C6_ScoreAndTier ==
    assessment # <<>> =>
        LET a == assessment[1]
            signals == a.explanation.triggeredSignals
        IN /\ a.score = SumSeq([i \in 1..Len(signals) |-> signals[i].weight])
           /\ a.threshold = 60
           /\ a.tier \in {"high", "low"}
           /\ (a.tier = "high") <=> (a.score >= 60)
           /\ NoSignalPatternMatches => (a.score = 0 /\ a.tier = "low")

\* An assessment whose score is exactly the threshold, from semantic signals
\* alone.
C6_Witness ==
    /\ assessment # <<>>
    /\ assessment[1].score = 60
    /\ assessment[1].tier = "high"
    /\ Len(assessment[1].explanation.triggeredSignals) = 3

ControlPlaneTouched ==
    \E f \in SeqToSet(changedFiles) :
        \E p \in SeqToSet(contract.docsDriftRules.controlPlanePaths) : GlobTest(p, f)

RequiredDocTouched ==
    \E f \in SeqToSet(changedFiles) :
        \E p \in SeqToSet(contract.docsDriftRules.requiredDocPaths) : GlobTest(p, f)

C3_HardDeadline ==
    /\ wpc = "returned" => now <= deadline
    /\ wpc = "sleeping" => now <= deadline

\* C9: a state is returned only if pollFn delivered it non-null with a status
\* other than pending; every poll is made with the head SHA of the call;
\* after a null or pending poll the call waits the interval and, the deadline
\* not passed, polls again; when every poll settles, the call ends, and it
\* ends with the timeout error unless a poll delivered a settled state or
\* rejected; with a timeout of zero it fails without polling.
C9_PollUntilSettledOrTimeout ==
    /\ [](wpc = "returned" => (state # <<>> /\ state[1].status # "pending"))
    /\ [](polledShas \subseteq {waitOpts.headSha})
    /\ [][wpc = "polling" /\ wpc' = "sleeping" =>
              (state' = <<>> \/ state'[1].status = "pending")]_vars
    /\ [][wpc = "sleeping" => (wpc' = "loop" /\ now' = now + DefaultPollIntervalMs)]_vars
    /\ [][wpc = "loop" /\ now < deadline =>
              (wpc' = "polling" /\ waitOpts.headSha \in polledShas')]_vars
    /\ [][wpc = "loop" /\ now >= deadline =>
              (wpc' = "timedout" /\ waitError' = TimeoutMessage(waitOpts))]_vars
    /\ [](wpc = "timedout" => (state = <<>> \/ state[1].status = "pending"))
    /\ [](wpc # "idle" /\ waitOpts.timeoutMinutes = 0 =>
              (polledShas = {} /\ wpc \in {"loop", "timedout"}))
    /\ <>(wpc \in {"returned", "timedout", "rejected"})

\* The call timed out after polling more than once, every poll null or pending.
C9_Witness ==
    /\ wpc = "timedout"
    /\ polledShas = {waitOpts.headSha}
    /\ state # <<>>
    /\ state[1].status = "pending"
    /\ now > deadline

(***************************************************************************)
(* Properties of runPreflightGate.                                         *)
(***************************************************************************)
\* The review state the run observed is a clean one of the current head.
ObservedCleanReview ==
    /\ wpc = "returned"
    /\ state # <<>>
    /\ state[1].headSha = gateOpts.headSha
    /\ state[1].status = "success"
    /\ ~state[1].hasActionableFindings

\* C2: whenever the gate returns a result with reviewRequired and passed both
\* true, the review agent was waited for and its state was observed with the
\* current head SHA, status success and no actionable findings.
C2_PassRequiresCleanReview ==
    (gatePc = "returned" /\ result[1].reviewRequired /\ result[1].passed)
        => ObservedCleanReview

\* C7: the gate rejects only when loading the contract fails, and then it has
\* run neither the docs-drift check nor the review poll; a run whose contract
\* loads never rejects.
C7_RejectsOnlyOnLoadFailure ==
    gatePc = "rejected" =>
        /\ loadContract(contractFile).error # ""
        /\ ~docsDriftChecked
        /\ wpc = "idle"
        /\ polledShas = {}

\* The docs-drift outcome and the review outcome of a returned run.
DriftMessageOfRun ==
    assertDocsDriftRules(gateOpts.changedFiles, ContractOf(contractFile.fields[1]))

ReviewMessageOfRun ==
    IF wpc = "idle" THEN "ok"
    ELSE IF wpc = "returned" THEN assertReviewCleanForHead(state[1], gateOpts.headSha)
    ELSE waitError

\* C8: in every result passed is true exactly when errors is empty, and
\* reviewClean false implies passed false; a docs-drift failure does not skip
\* the review, and errors holds the docs-drift message first and the review
\* message second, each exactly when its check failed.
C8_ErrorsAccumulate ==
    gatePc = "returned" =>
        /\ result[1].passed <=> (result[1].errors = <<>>)
        /\ ~result[1].reviewClean => ~result[1].passed
        /\ (result[1].reviewRequired /\ gateOpts.pollReview) => wpc # "idle"
        /\ result[1].reviewClean <=> (ReviewMessageOfRun = "ok")
        /\ result[1].errors =
              (IF DriftMessageOfRun = "ok" THEN <<>> ELSE <<DriftMessageOfRun>>)
                \o (IF ReviewMessageOfRun = "ok" THEN <<>> ELSE <<ReviewMessageOfRun>>)

\* A run returned with both the docs-drift rule and the review failed.
C8_Witness ==
    /\ gatePc = "returned"
    /\ Len(result[1].errors) = 2
    /\ ~result[1].reviewClean
    /\ ~result[1].passed

(***************************************************************************)
(* Properties of runRemediationLoop.                                       *)
(***************************************************************************)
\* The errors of the result that report the attempt limit.
MaxAttemptsErrors ==
    {i \in 1..Len(remResult.errors) :
        remResult.errors[i] = "Reached max remediation attempts ("
                                \o NumberToString(remOpts.config.maxAttempts) \o ")"}

\* C4: applyFix is never invoked more than config.maxAttempts times and
\* attempted is the number of its invocations; a run that stops at an
\* actionable finding with attempted at maxAttempts records exactly one
\* max-attempts error, as its last error, and leaves that finding and the
\* later ones unattempted; a run that goes through every actionable finding
\* records none; with maxAttempts 1 only the highest-priority finding is
\* passed to applyFix.
C4_BoundedAttempts ==
    /\ Len(applyLog) <= remOpts.config.maxAttempts
    /\ remResult.attempted = Len(applyLog)
    /\ \A i \in 1..Len(applyLog) : applyLog[i] = FindingLocation(actionable[i])
    /\ rpc = "done" =>
          /\ remResult.attempted <= remOpts.config.maxAttempts
          /\ IF cursor <= Len(actionable)
               THEN /\ remResult.attempted = remOpts.config.maxAttempts
                    /\ cursor = remResult.attempted + 1
                    /\ Cardinality(MaxAttemptsErrors) = 1
                    /\ remResult.errors[Len(remResult.errors)]
                         = "Reached max remediation attempts ("
                             \o NumberToString(remOpts.config.maxAttempts) \o ")"
               ELSE /\ MaxAttemptsErrors = {}
                    /\ remResult.attempted = Len(actionable)
          /\ (remOpts.config.maxAttempts = 1 /\ Len(actionable) > 1) =>
                /\ remResult.attempted = 1
                /\ applyLog = <<FindingLocation(actionable[1])>>

\* A run with maxAttempts 1 and two actionable findings has returned.
C4_Witness ==
    /\ rpc = "done"
    /\ remOpts.config.maxAttempts = 1
    /\ Len(actionable) = 2
    /\ applyLog = <<"b.ts:2">>
    /\ Cardinality(MaxAttemptsErrors) = 1

(***************************************************************************)
(* Properties of validateBrowserEvidence.                                  *)
(***************************************************************************)
\* A required flow of the contract has no entry in the manifest.
EvidenceFlowMissing ==
    \E i \in 1..Len(evidenceContract.browserEvidence.requiredFlows) :
        \A e \in 1..Len(manifest.entries) :
            manifest.entries[e].flowName # evidenceContract.browserEvidence.requiredFlows[i]

\* An entry of the manifest lacks a required field.
EvidenceFieldMissing ==
    \E e \in 1..Len(manifest.entries) :
        \E f \in 1..Len(evidenceContract.browserEvidence.requiredFields) :
            FieldIsMissing(manifest.entries[e], evidenceContract.browserEvidence.requiredFields[f])

\* An entry of the manifest is older than the contract allows.
EvidenceOverAge ==
    \E e \in 1..Len(manifest.entries) :
        IsOverAge(manifest.entries[e], evidenceContract.browserEvidence.maxAgeDays, EvidenceNow)

\* C11: the validation throws the SHA-mismatch error whenever the manifest's
\* headSha differs from the current head SHA, whatever its entries are; for a
\* matching manifest it reports a missing required flow before a missing
\* required field before an over-age entry, and it succeeds only when none of
\* the three applies.
C11_EvidenceOrder ==
    evidenceOutcome # "none" =>
        IF manifest.headSha # evidenceHeadSha
        THEN evidenceOutcome = "Browser evidence SHA mismatch: expected " \o evidenceHeadSha
                                 \o ", got " \o manifest.headSha
        ELSE IF EvidenceFlowMissing
        THEN StartsWithAt(evidenceOutcome, 1, "Missing browser evidence for required flow: ")
        ELSE IF EvidenceFieldMissing
        THEN StartsWithAt(evidenceOutcome, 1, "Browser evidence entry \"")
        ELSE IF EvidenceOverAge
        THEN StartsWithAt(evidenceOutcome, 1, "Browser evidence for \"")
        ELSE evidenceOutcome = "ok"

\* A stale manifest with no entries, whose flows are therefore missing too,
\* was reported as a SHA mismatch.
C11_Witness ==
    /\ manifest.headSha # evidenceHeadSha
    /\ EvidenceFlowMissing
    /\ StartsWithAt(evidenceOutcome, 1, "Browser evidence SHA mismatch")

(***************************************************************************)
(* Properties of the single-check and the review assertion.                *)
(***************************************************************************)
\* C12: assertCheckForCurrentHead succeeds exactly for a check of the current
\* head SHA that is completed and successful, and reports a check of another
\* revision as stale whatever its status and conclusion, then a check that is
\* not completed, then one that did not succeed; assertReviewCleanForHead
\* succeeds exactly for a successful review of the current head SHA without
\* actionable findings, and reports a review of another revision as stale
\* whatever its status and findings, then a status other than success, then
\* actionable findings.
C12_RevisionComparedFirst ==
    /\ assertedCheckOutcome # "none" =>
          LET c == assertedCheck[1]
          IN IF c.headSha # assertedSha
             THEN assertedCheckOutcome =
                    "Stale check \"" \o c.name \o "\": expected SHA " \o assertedSha
                      \o ", got " \o c.headSha
             ELSE IF c.status # "completed"
             THEN assertedCheckOutcome =
                    "Check \"" \o c.name \o "\" is not completed (status: " \o c.status \o ")"
             ELSE IF c.conclusion # "success"
             THEN assertedCheckOutcome =
                    "Check \"" \o c.name \o "\" did not succeed (conclusion: "
                      \o c.conclusion \o ")"
             ELSE assertedCheckOutcome = "ok"
    /\ assertedReviewOutcome # "none" =>
          LET r == assertedReview[1]
          IN IF r.headSha # assertedSha
             THEN assertedReviewOutcome =
                    "Stale review: expected SHA " \o assertedSha \o ", got " \o r.headSha
             ELSE IF r.status # "success"
             THEN assertedReviewOutcome =
                    "Review did not succeed (status: " \o r.status \o ")"
             ELSE IF r.hasActionableFindings
             THEN assertedReviewOutcome =
                    "Review has unresolved actionable findings for current head"
             ELSE assertedReviewOutcome = "ok"

\* A failed review of another revision with findings and a queued check of
\* another revision were both reported as stale.
C12_Witness ==
    /\ assertedCheckOutcome # "none"
    /\ assertedCheck[1].headSha # assertedSha
    /\ assertedCheck[1].status = "queued"
    /\ StartsWithAt(assertedCheckOutcome, 1, "Stale check")
    /\ assertedReviewOutcome # "none"
    /\ assertedReview[1].headSha # assertedSha
    /\ assertedReview[1].status = "failure"
    /\ assertedReview[1].hasActionableFindings
    /\ StartsWithAt(assertedReviewOutcome, 1, "Stale review")

(***************************************************************************)
(* The order of the errors of assertRequiredChecksSuccessful.              *)
(***************************************************************************)
\* The required names, by position, that have no check of their name.
MissingRequired ==
    {i \in 1..Len(requiredNames) : findCheckByName(checks, requiredNames[i]) = <<>>}

\* The required names, by position, that have no check or whose first check
\* fails the single-check assertion.
FailingRequired ==
    MissingRequired \cup
    {i \in 1..Len(requiredNames) \ MissingRequired :
        assertCheckForCurrentHead(findCheckByName(checks, requiredNames[i])[1],
                                  currentHeadSha) # "ok"}

IsMissingError(message) ==
    \E n \in CheckNames : message = "Required check \"" \o n \o "\" not found"

\* C13 as stated: the assertion fails with the missing error whenever any
\* required name has no check of that name, also when the check of another
\* required name is stale, not completed or unsuccessful.
C13_MissingReportedFirst ==
    (checksOutcome # "none" /\ MissingRequired # {}) => IsMissingError(checksOutcome)

\* C13, amended: the required names are taken in order and the assertion
\* fails at the first one that has no check or whose first check fails the
\* single-check assertion, with the missing error in the first case and the
\* error of the single-check assertion in the second; the missing error is
\* reported only for a name that has no check, and never when every required
\* name has one.
C13_FirstFailureInOrder ==
    checksOutcome # "none" =>
        /\ IF FailingRequired = {} THEN checksOutcome = "ok"
           ELSE IF FirstIndex(FailingRequired) \in MissingRequired
           THEN checksOutcome = "Required check \""
                                  \o requiredNames[FirstIndex(FailingRequired)] \o "\" not found"
           ELSE checksOutcome =
                  assertCheckForCurrentHead(
                      findCheckByName(checks, requiredNames[FirstIndex(FailingRequired)])[1],
                      currentHeadSha)
        /\ IsMissingError(checksOutcome) => MissingRequired # {}

\* The first required name has a stale check and the second has none: the
\* stale check is what is reported.
C13_Witness ==
    /\ Len(requiredNames) = 2
    /\ MissingRequired = {2}
    /\ StartsWithAt(checksOutcome, 1, "Stale check")

(***************************************************************************)
(* Properties of validateContract and loadContract.                        *)
(***************************************************************************)
\* C14: every value validateContract accepts, and so every contract
\* loadContract returns, has the eight required top-level keys, a high and a
\* low entry in riskTierRules, and a non-empty requiredChecks list for the
\* high and for the low tier of mergePolicy.
C14_AcceptedContractComplete ==
    (gatePc # "idle" /\ validateContract(contractFile) = "ok"
       /\ loadContract(contractFile).error = "") =>
        LET obj == loadContract(contractFile).data[1]
        IN /\ SeqToSet(REQUIRED_TOP_KEYS) \subseteq DOMAIN obj
           /\ {"high", "low"} \subseteq DOMAIN obj.riskTierRules
           /\ \A tier \in {"high", "low"} :
                 /\ IsArray(obj.mergePolicy[tier].requiredChecks)
                 /\ obj.mergePolicy[tier].requiredChecks.items # <<>>

(***************************************************************************)
(* Properties of adjudicateFindings and filterCurrentFindings.             *)
(***************************************************************************)
\* The file, line, category and normalized message of a finding.
ContentKey(f) == <<f.file, f.line, f.category, NormalizedMessageTable[f.message]>>

DuplicateKeys(q) == {buildDuplicateKey(q[i]) : i \in 1..Len(q)}

\* The findings of a list that have the duplicate key.
GroupMembers(q, key) == {q[i] : i \in {j \in 1..Len(q) : buildDuplicateKey(q[j]) = key}}

IsStrictlySorted(strings) ==
    \A i \in 1..(Len(strings) - 1) : CodeUnitLess(strings[i], strings[i + 1])

C16_Idempotent ==
    readjudicated.called => readjudicated.value = adjudicated.value

\* The first call merged a group and ordered the rest, then ran again.
C16_Witness ==
    /\ readjudicated.called
    /\ Len(findingsInput) = 3
    /\ Len(readjudicated.value) = 2
    /\ Len(readjudicated.value[2].providers) = 2
    /\ readjudicated.value[1].fingerprint = <<"fp-1">>
    /\ readjudicated.value # findingsInput

\* C17: filterCurrentFindings never returns an info-severity finding; with
\* skipStaleComments every returned finding is of the current head SHA;
\* without it the non-info findings of other revisions are retained (their
\* duplicate keys are all in the result); in both modes the result is
\* adjudicated: no two returned findings share a duplicate key and the list
\* is in priority order.
C17_FilterCurrent ==
    filteredResult.called =>
        LET out == filteredResult.value
            nonInfo == {i \in 1..Len(findingsInput) : findingsInput[i].severity # "info"}
        IN /\ \A i \in 1..Len(out) : out[i].severity # "info"
           /\ findingsConfig.skipStaleComments =>
                 /\ \A i \in 1..Len(out) : out[i].headSha = findingsHeadSha
                 /\ DuplicateKeys(out) =
                       {buildDuplicateKey(findingsInput[i]) :
                           i \in {j \in nonInfo : findingsInput[j].headSha = findingsHeadSha}}
           /\ ~findingsConfig.skipStaleComments =>
                 DuplicateKeys(out) = {buildDuplicateKey(findingsInput[i]) : i \in nonInfo}
           /\ \A i, j \in 1..Len(out) :
                 i < j => /\ buildDuplicateKey(out[i]) # buildDuplicateKey(out[j])
                          /\ findingPriority(out[i]) >= findingPriority(out[j])

\* A finding of another revision or of severity info is dropped, and the two
\* findings left come back in priority order, which is not their input order.
C17_Witness ==
    /\ filteredResult.called
    /\ findingsConfig.skipStaleComments
    /\ Len(findingsInput) = 3
    /\ \E i \in 1..3 : findingsInput[i].headSha # findingsHeadSha
    /\ Len(filteredResult.value) = 2
    /\ findingPriority(filteredResult.value[1]) > findingPriority(filteredResult.value[2])
    /\ filteredResult.value # SubSeq(findingsInput, 1, 2)
    /\ filteredResult.value # SubSeq(findingsInput, 2, 3)

(***************************************************************************)
(* Properties of the callbacks of runRemediationLoop.                      *)
(***************************************************************************)
\* The calls of the log that settled with one of the outcomes.
SettledWith(outcomes) == {i \in 1..Len(callLog) : callLog[i].outcome \in outcomes}

\* The errors of the result that name the finding at a position of actionable.
ErrorsNaming(position) ==
    {i \in 1..Len(remResult.errors) :
        remResult.errors[i] \in
            { "Could not apply fix for " \o FindingLocation(actionable[position]),
              "Fix for " \o FindingLocation(actionable[position]) \o " failed validation",
              "Error fixing " \o FindingLocation(actionable[position]) \o ": "
                 \o CallbackErrorMessage }}

\* The callbacks' failures are recorded, one error each, and only a fix that
\* was applied and validated is counted.
CallbackFailuresRecorded ==
    /\ Len(remResult.errors) - Cardinality(MaxAttemptsErrors)
          = Cardinality(SettledWith({"false", "throws"}))
    /\ \A i \in SettledWith({"false", "throws"}) :
          /\ ErrorsNaming(callLog[i].finding) # {}
          /\ cursor > callLog[i].finding
    /\ remResult.succeeded =
          Cardinality({i \in SettledWith({"true"}) : callLog[i].call = "validate"})
    /\ \A i \in SettledWith({"true"}) :
          callLog[i].call = "validate" =>
              /\ callLog[i - 1].call = "applyFix"
              /\ callLog[i - 1].finding = callLog[i].finding
              /\ callLog[i - 1].outcome = "true"

\* C18: runRemediationLoop never rejects because of the injected functions:
\* when applyFix returns false, validate returns false, or either of them
\* throws, exactly one error naming the finding is appended, succeeded is
\* not incremented and the loop goes on to the next finding; succeeded is
\* incremented only when applyFix and the following validate returned true.
C18_NeverRejectsOnCallbacks ==
    /\ rpc # "rejected"
    /\ CallbackFailuresRecorded

\* Severity descending, then confidence descending, then file ascending,
\* then line ascending: a may come before b.
MayPrecede(a, b) ==
    \/ SEVERITY_RANK[a.severity] > SEVERITY_RANK[b.severity]
    \/ /\ a.severity = b.severity
       /\ \/ CONFIDENCE_RANK[a.confidence] > CONFIDENCE_RANK[b.confidence]
          \/ /\ a.confidence = b.confidence
             /\ \/ CodeUnitLess(a.file, b.file)
                \/ a.file = b.file /\ a.line <= b.line

ApplyFixCalls == {i \in 1..Len(callLog) : callLog[i].call = "applyFix"}

ValidateCalls == {i \in 1..Len(callLog) : callLog[i].call = "validate"}

\* C19: runRemediationLoop handles the findings one at a time in adjudicated
\* priority order: applyFix is invoked at most once per finding, validate at
\* most once per finding and only after that finding's applyFix returned
\* true, and no call is made before the call before it has settled, so two
\* fixes are never in flight at the same time.
C19_OneAtATimeInPriorityOrder ==
    /\ \A i, j \in 1..Len(actionable) : i < j => MayPrecede(actionable[i], actionable[j])
    /\ \A i \in 1..Len(callLog) :
          callLog[i].outcome = "pending" => i = Len(callLog)
    /\ \A i, j \in ApplyFixCalls : i < j => callLog[i].finding < callLog[j].finding
    /\ \A i, j \in ValidateCalls : i < j => callLog[i].finding < callLog[j].finding
    /\ \A i \in ValidateCalls :
          /\ i > 1
          /\ callLog[i - 1] = [call |-> "applyFix", finding |-> callLog[i].finding,
                               outcome |-> "true"]
    /\ \A i \in ApplyFixCalls :
          /\ callLog[i].finding = Cardinality({j \in ApplyFixCalls : j <= i})
          /\ callLog[i].finding \in 1..Len(actionable)

\* A run over three actionable findings that were not given in priority
\* order fixed and validated the first, tried the second, and has returned.
C19_Witness ==
    /\ rpc = "done"
    /\ Len(actionable) = 3
    /\ actionable # remOpts.findings
    /\ Cardinality(ApplyFixCalls) = 2
    /\ Cardinality(ValidateCalls) = 1
    /\ callLog[2].call = "validate"
    /\ callLog[3].finding = 2

(***************************************************************************)
(* Properties of autoResolveBotThreads.                                    *)
(***************************************************************************)
\* The ids of the threads that are unresolved, have a comment, and have no
\* comment by anyone but botUser.
BotOnlyUnresolvedIds ==
    {threadOpts.threads[i].id : i \in
        {j \in 1..Len(threadOpts.threads) :
            /\ ~threadOpts.threads[j].isResolved
            /\ threadOpts.threads[j].comments # <<>>
            /\ {c.user : c \in SeqToSet(threadOpts.threads[j].comments)}
                  = {threadOpts.botUser}}}

OtherUnresolvedIds ==
    {threadOpts.threads[i].id : i \in
        {j \in 1..Len(threadOpts.threads) : ~threadOpts.threads[j].isResolved}}
      \ BotOnlyUnresolvedIds

CoverageEntries ==
    IF "coverageByPathClass" \in DOMAIN contract.docsDriftRules
    THEN contract.docsDriftRules.coverageByPathClass ELSE <<>>

\* The change touches a file of the entry's triggerPaths and none of its
\* requiredDocPaths.
CoverageEntryUnmet(entry) ==
    /\ \E f \in SeqToSet(changedFiles) :
          \E p \in SeqToSet(entry.triggerPaths) : GlobTest(p, f)
    /\ ~\E f \in SeqToSet(changedFiles) :
          \E p \in SeqToSet(entry.requiredDocPaths) : GlobTest(p, f)

\* C21: when the contract declares docsDriftRules.coverageByPathClass, a
\* change that touches a file of an entry's triggerPaths and no file of that
\* entry's requiredDocPaths is rejected by assertDocsDriftRules.
C21_CoverageByPathClassEnforced ==
    driftOutcome # "none" =>
        \A i \in 1..Len(CoverageEntries) :
            CoverageEntryUnmet(CoverageEntries[i]) => driftOutcome # "ok"

(***************************************************************************)
(* Properties of globToRegExp.                                             *)
(***************************************************************************)
\* The reference semantics of a glob: ** matches any run of characters, *
\* any run without a separator, any other character itself, and the whole
\* path is matched.
RECURSIVE GlobReferenceAt(_, _, _, _)
GlobReferenceAt(pattern, i, path, j) ==
    IF i > Len(pattern) THEN j > Len(path)
    ELSE IF StartsWithAt(pattern, i, "**")
    THEN \E k \in j..(Len(path) + 1) : GlobReferenceAt(pattern, i + 2, path, k)
    ELSE IF CharAt(pattern, i) = "*"
    THEN \E k \in j..(Len(path) + 1) :
            /\ \A m \in j..(k - 1) : CharAt(path, m) # "/"
            /\ GlobReferenceAt(pattern, i + 1, path, k)
    ELSE /\ j <= Len(path)
         /\ CharAt(path, j) = CharAt(pattern, i)
         /\ GlobReferenceAt(pattern, i + 1, path, j + 1)

\* C22: for every pattern and path over an alphabet that includes regular
\* expression metacharacters, globToRegExp(pattern).test(path) is the
\* reference glob match; a pattern without * matches exactly itself.
C22_GlobMatchesReference ==
    globOutcome # "none" =>
        /\ globOutcome =
              (IF GlobReferenceAt(globPattern, 1, globPath, 1) THEN "true" ELSE "false")
        /\ (\A i \in 1..Len(globPattern) : CharAt(globPattern, i) # "*") =>
              (globOutcome = "true" <=> globPath = globPattern)

(***************************************************************************)
(* Properties of the rerun-comment writer.                                 *)
(***************************************************************************)
\* The rerun requests for a SHA among the comments of the pull request.
RerunRequestsFor(sha) ==
    {i \in 1..Len(prComments) :
        /\ Includes(prComments[i].body, DEFAULT_MARKER)
        /\ Includes(prComments[i].body, "sha:" \o sha)}

\* C23: for each head SHA at most one rerun-request comment is ever posted,
\* also when several workflow runs read the comments, evaluate
\* maybeRerunComment for the same SHA and post what it returns, in any
\* interleaving.
C23_AtMostOneRerunRequest ==
    \A sha \in RerunShas : Cardinality(RerunRequestsFor(sha)) <= 1

(***************************************************************************)
(* Properties of the TaskRunner.                                           *)
(***************************************************************************)
\* The statuses a run may go through, in order.
IsLifecycle(history) ==
    history \in { <<"queued">>, <<"queued", "running">>,
                  <<"queued", "running", "done">>, <<"queued", "running", "failed">> }

\* C24: every run follows queued -> running -> done or failed: its status
\* only moves forward, done and failed are terminal, and a run that reached
\* one of them is not executed again, for every interleaving of submit,
\* register and initialize.
C24_RunLifecycle ==
    \A i \in 1..Len(taskRuns) :
        /\ IsLifecycle(taskRuns[i].history)
        /\ taskRuns[i].status \in {"done", "failed"} => taskRuns[i].executing = 0

\* C25: when two findings with the same duplicate key have equal priority,
\* adjudicateFindings keeps the later one: the merged finding carries the
\* message, file, line and revision of the finding later in the input.
C25_TieKeepsLater ==
    adjudicated.called =>
        \A i, j \in 1..Len(findingsInput) :
            ( /\ i < j
              /\ buildDuplicateKey(findingsInput[i]) = buildDuplicateKey(findingsInput[j])
              /\ findingPriority(findingsInput[i]) = findingPriority(findingsInput[j])
              /\ \A k \in 1..Len(findingsInput) :
                    buildDuplicateKey(findingsInput[k]) = buildDuplicateKey(findingsInput[i])
                        => k \in {i, j} )
            => \E o \in SeqToSet(adjudicated.value) :
                  /\ buildDuplicateKey(o) = buildDuplicateKey(findingsInput[j])
                  /\ o.message = findingsInput[j].message
                  /\ o.file = findingsInput[j].file
                  /\ o.line = findingsInput[j].line
                  /\ o.headSha = findingsInput[j].headSha

(***************************************************************************)
(* Further properties of computeRiskAssessment.                            *)
(***************************************************************************)
\* The changed files that match one of the patterns.
FilesMatching(patterns) ==
    {f \in SeqToSet(changedFiles) : \E p \in SeqToSet(patterns) : GlobTest(p, f)}

\* The place of a category in the order the signals are listed in.
CategoryRank ==
    [ c \in {"contract-rule", "semantic-public-api", "semantic-auth-permissions",
             "semantic-migration", "semantic-workflow", "history-flaky-tests",
             "history-incidents", "history-rollbacks"} |->
        CASE c = "contract-rule" -> 1
          [] c = "semantic-public-api" -> 2
          [] c = "semantic-auth-permissions" -> 3
          [] c = "semantic-migration" -> 4
          [] c = "semantic-workflow" -> 5
          [] c = "history-flaky-tests" -> 6
          [] c = "history-incidents" -> 7
          [] c = "history-rollbacks" -> 8 ]

\* The weights of the semantic definitions, as the claim gives them.
SemanticWeight ==
    [ c \in {"semantic-public-api", "semantic-auth-permissions", "semantic-migration",
             "semantic-workflow"} |->
        CASE c = "semantic-public-api" -> 20
          [] c = "semantic-auth-permissions" -> 25
          [] c = "semantic-migration" -> 20
          [] c = "semantic-workflow" -> 15 ]

\* The entries of a metadata list are scored: one signal, of the entry's own
\* weight, for each entry whose pattern matches a changed file.
HistoricalScored(signals, entries, category, prefix) ==
    /\ \A i \in 1..Len(entries) :
          Cardinality({k \in 1..Len(signals) :
                          /\ signals[k].category = category
                          /\ signals[k].signal = prefix \o ":" \o entries[i].pattern
                          /\ signals[k].weight = entries[i].weight})
            = (IF FilesMatching(<<entries[i].pattern>>) # {} THEN 1 ELSE 0)
    /\ Cardinality({k \in 1..Len(signals) : signals[k].category = category})
          = Cardinality({i \in 1..Len(entries) : FilesMatching(<<entries[i].pattern>>) # {}})

C27_SucceedsOnSomeCurrentSuccess ==
    ( /\ checksOutcome # "none"
      /\ \A n \in SeqToSet(requiredNames) :
            \E i \in 1..Len(checks) :
               /\ checks[i].name = n
               /\ checks[i].headSha = currentHeadSha
               /\ checks[i].status = "completed"
               /\ checks[i].conclusion = "success" )
        => checksOutcome = "ok"

(***************************************************************************)
(* The counters of the result of runRemediationLoop.                       *)
(***************************************************************************)
\* The number of actionable findings of the run: the distinct duplicate keys
\* of the findings that are not informational and, when stale comments are
\* skipped, are of the current head SHA.
ActionableCount ==
    Cardinality({ buildDuplicateKey(remOpts.findings[i]) :
                    i \in { k \in 1..Len(remOpts.findings) :
                              /\ remOpts.findings[k].severity # "info"
                              /\ remOpts.config.skipStaleComments =>
                                    remOpts.findings[k].headSha = remOpts.currentHeadSha } })

\* C28: in every result returned by runRemediationLoop,
\* 0 <= succeeded <= attempted <= the number of actionable findings, skipped
\* is the number of input findings minus the number of actionable findings,
\* and the number of errors is attempted - succeeded, plus one exactly when
\* the loop was stopped by the max-attempts limit.
C28_ResultCounters ==
    rpc = "done" =>
        /\ 0 <= remResult.succeeded
        /\ remResult.succeeded <= remResult.attempted
        /\ remResult.attempted <= ActionableCount
        /\ remResult.skipped = Len(remOpts.findings) - ActionableCount
        /\ Len(remResult.errors) =
              remResult.attempted - remResult.succeeded
                + (IF ActionableCount > remOpts.config.maxAttempts THEN 1 ELSE 0)
        /\ (ActionableCount > remOpts.config.maxAttempts) <=>
              ( /\ remResult.errors # <<>>
                /\ remResult.errors[Len(remResult.errors)]
                     = "Reached max remediation attempts ("
                         \o NumberToString(remOpts.config.maxAttempts) \o ")" )

\* A run that skipped one finding, fixed one and was stopped by the limit at
\* the next one.
C28_Witness ==
    /\ rpc = "done"
    /\ remResult.skipped = 1
    /\ remResult.succeeded = 1
    /\ remResult.attempted = 1
    /\ Len(remResult.errors) = 1
    /\ Len(actionable) = 2

(***************************************************************************)
(* The risk assessment behind the gate's tier.                             *)
(***************************************************************************)
\* C29: runPreflightGate classifies a change as computeRiskAssessment does on
\* the changed files, the loaded contract and the repository's historical
\* risk metadata: whenever that assessment's score is at least 60, also when
\* only the historical signals bring it there, the gate returns riskTier high
\* with the high tier's requiredChecks and review requirement.
C29_GateUsesHistoricalMetadata ==
    gatePc = "returned" =>
        LET loaded == ContractOf(loadContract(contractFile).data[1])
            a == computeRiskAssessment(gateOpts.changedFiles, loaded, historicalMetadata)
        IN /\ result[1].riskTier = a.tier
           /\ a.score >= 60 =>
                 /\ result[1].riskTier = "high"
                 /\ result[1].requiredChecks = loaded.mergePolicy.high.requiredChecks
                 /\ result[1].reviewRequired = loaded.mergePolicy.high.requireCodeReviewAgent

(***************************************************************************)
(* The timestamps of accepted browser evidence.                            *)
(***************************************************************************)
\* C30: validateBrowserEvidence succeeds only if the timestamp of every
\* entry of the manifest is a valid date-time that is no older than
\* maxAgeDays at evaluation time; an entry whose timestamp cannot be parsed
\* as a date is rejected.
C30_AcceptedTimestampsValid ==
    evidenceOutcome = "ok" =>
        \A e \in 1..Len(manifest.entries) :
            /\ DateParse(manifest.entries[e].timestamp) # <<>>
            /\ EvidenceNow - DateParse(manifest.entries[e].timestamp)[1]
                  <= evidenceContract.browserEvidence.maxAgeDays * SecondsPerDay

====
